---- MODULE Spec2Model ----
(***************************************************************************)
(* git-snitch: the log ingestion and aggregation pipeline.                 *)
(*                                                                         *)
(* Text is modelled at character level: a string is a sequence of          *)
(* one-character strings, so that includes / split / match / parseInt are  *)
(* computed the way the JavaScript code computes them.                     *)
(***************************************************************************)
EXTENDS Integers, Sequences, FiniteSets, TLC

\* ------------------------------------------------------------------ bounds
MaxLines == 3        \* lines fed to one parseGitLog run (general runs)
MaxEmit == 4         \* lines of one round-trip log text
MaxCommits == 3      \* commits fed to the aggregator
MaxQueryLines == 2   \* lines of one `git branch -a --contains` output
MaxRefs == 2         \* refs of one %D decoration

\* -------------------------------------------------------------- characters
TAB == "\t"
SP == " "
NL == "\n"
BAR == "|"

Digits == {"0", "1", "2", "3", "4", "5", "6", "7", "8", "9"}

Letters ==
    {"a", "b", "c", "d", "e", "f", "g", "h", "i", "j", "k", "l", "m",
     "n", "o", "p", "q", "r", "s", "t", "u", "v", "w", "x", "y", "z",
     "A", "B", "C", "D", "E", "F", "G", "H", "I", "J", "K", "L", "M",
     "N", "O", "P", "Q", "R", "S", "T", "U", "V", "W", "X", "Y", "Z"}

DigitVal(c) ==
    CASE c = "0" -> 0 [] c = "1" -> 1 [] c = "2" -> 2 [] c = "3" -> 3
      [] c = "4" -> 4 [] c = "5" -> 5 [] c = "6" -> 6 [] c = "7" -> 7
      [] c = "8" -> 8 [] c = "9" -> 9

\* \d, \s and [\w\/\-\.] of the regular expressions
IsDigit(c) == c \in Digits
IsSpace(c) == c \in {SP, TAB, NL}
IsRefChar(c) == c \in Letters \cup Digits \cup {"_", "/", "-", "."}

\* ---------------------------------------------------------- JS string ops
\* parts[k] past the end of an array is undefined
Undefined == <<"<undefined>">>

\* a JavaScript number: <<v>> for the integer v, <<>> for NaN
Num(v) == <<v>>
NotANumber == <<>>

Includes(s, sub) ==
    \E i \in 0..(Len(s) - Len(sub)) : SubSeq(s, i + 1, i + Len(sub)) = sub

StartsWith(s, pre) ==
    Len(s) >= Len(pre) /\ SubSeq(s, 1, Len(pre)) = pre

\* String.prototype.split with a one-character separator
RECURSIVE SplitFrom(_, _, _, _)
SplitFrom(s, sep, i, acc) ==
    IF i > Len(s) THEN <<acc>>
    ELSE IF s[i] = sep THEN <<acc>> \o SplitFrom(s, sep, i + 1, <<>>)
    ELSE SplitFrom(s, sep, i + 1, Append(acc, s[i]))

Split(s, sep) == SplitFrom(s, sep, 1, <<>>)

\* parts[k] of a JavaScript array (0-based), undefined past the end
Part(parts, k) == IF k + 1 <= Len(parts) THEN parts[k + 1] ELSE Undefined

\* length of the longest run of characters satisfying P that starts at i
RECURSIVE DigitRun(_, _)
DigitRun(s, i) ==
    IF i <= Len(s) /\ IsDigit(s[i]) THEN 1 + DigitRun(s, i + 1) ELSE 0

RECURSIVE SpaceRun(_, _)
SpaceRun(s, i) ==
    IF i <= Len(s) /\ IsSpace(s[i]) THEN 1 + SpaceRun(s, i + 1) ELSE 0

RECURSIVE RefRun(_, _)
RefRun(s, i) ==
    IF i <= Len(s) /\ IsRefChar(s[i]) THEN 1 + RefRun(s, i + 1) ELSE 0

\* line.match(/^\d+\s+\d+\s+/)
MatchNumstat(s) ==
    LET d1 == DigitRun(s, 1)
        w1 == SpaceRun(s, 1 + d1)
        d2 == DigitRun(s, 1 + d1 + w1)
        w2 == SpaceRun(s, 1 + d1 + w1 + d2)
    IN  d1 > 0 /\ w1 > 0 /\ d2 > 0 /\ w2 > 0

\* String.prototype.trim
RECURSIVE TrimLeft(_)
TrimLeft(s) ==
    IF s # <<>> /\ IsSpace(Head(s)) THEN TrimLeft(Tail(s)) ELSE s

RECURSIVE TrimRight(_)
TrimRight(s) ==
    IF s # <<>> /\ IsSpace(s[Len(s)])
    THEN TrimRight(SubSeq(s, 1, Len(s) - 1)) ELSE s

Trim(s) == TrimRight(TrimLeft(s))

\* value of the decimal digits s[i..i+n-1]
RECURSIVE DigitsValue(_, _, _)
DigitsValue(s, i, n) ==
    IF n = 0 THEN 0
    ELSE 10 * DigitsValue(s, i, n - 1) + DigitVal(s[i + n - 1])

\* parseInt(s, 10): leading whitespace skipped, an optional sign, then the
\* longest digit prefix; NaN when there is none (undefined reads "undefined")
ParseInt(s) ==
    IF s = Undefined THEN NotANumber
    ELSE LET t == TrimLeft(s)
             signed == t # <<>> /\ t[1] \in {"+", "-"}
             u == IF signed THEN Tail(t) ELSE t
             n == DigitRun(u, 1)
             v == DigitsValue(u, 1, n)
         IN  IF n = 0 THEN NotANumber
             ELSE IF signed /\ t[1] = "-" THEN Num(0 - v) ELSE Num(v)

\* x || 0 for a number x
OrZero(x) == IF x = NotANumber \/ x = Num(0) THEN 0 ELSE x[1]

\* [a, b, ...].join(sep)
RECURSIVE Join(_, _)
Join(parts, sep) ==
    IF parts = <<>> THEN <<>>
    ELSE IF Len(parts) = 1 THEN parts[1]
    ELSE parts[1] \o sep \o Join(Tail(parts), sep)

\* ---------------------------------------------------------------- literals
S_unknown == <<"u", "n", "k", "n", "o", "w", "n">>
S_main == <<"m", "a", "i", "n">>
S_master == <<"m", "a", "s", "t", "e", "r">>
S_originSlash == <<"o", "r", "i", "g", "i", "n", "/">>
S_originMain == S_originSlash \o S_main
S_originMaster == S_originSlash \o S_master
S_remotesSlash == <<"r", "e", "m", "o", "t", "e", "s", "/">>
S_remotesOriginSlash == S_remotesSlash \o S_originSlash
S_HEAD == <<"H", "E", "A", "D">>
S_HEADArrow == S_HEAD \o <<" ", "-", ">">>
S_HEADArrowSp == S_HEADArrow \o <<" ">>
S_tagColon == <<"t", "a", "g", ":">>
S_starSp == <<"*", " ">>

\* ------------------------------------------------- try / catch, execSync
\* the outcome of a block of code: a returned value or a thrown exception
Returned(v) == [threw |-> FALSE, val |-> v]
Thrown == [threw |-> TRUE, val |-> <<>>]

\* try { body } catch (error) { return dflt }
TryCatch_Rethrows(body, dflt) == body

TryCatch(body, dflt) == IF body.threw THEN Returned(dflt) ELSE body

\* the outcome of one execSync call: it throws (non-zero exit, no repository,
\* unknown commit) or returns the command's standard output.  The output of
\* `git branch -a --contains` is held as its lines (output.split("\n")).
ExecFailed == [ok |-> FALSE, out |-> <<>>]
ExecOutput(o) == [ok |-> TRUE, out |-> o]

\* ------------------------------------------------------ BranchAttributor
\* l.replace(/^\* /, "")
StripCurrentMarker(l) ==
    IF StartsWith(l, S_starSp) THEN SubSeq(l, Len(S_starSp) + 1, Len(l)) ELSE l

\* branchName.replace(/^remotes\/origin\//, "origin/")
NormalizeOrigin(b) ==
    IF StartsWith(b, S_remotesOriginSlash)
    THEN S_originSlash \o SubSeq(b, Len(S_remotesOriginSlash) + 1, Len(b))
    ELSE b

\* a JavaScript Set filled in this order: insertion order, no duplicates
SetAdd(set, x) ==
    IF \E i \in 1..Len(set) : set[i] = x THEN set ELSE Append(set, x)

SetHas(set, x) == \E i \in 1..Len(set) : set[i] = x

\* the loop that fills branchCandidates (single-repository script)
RECURSIVE BranchCandidates(_, _)
BranchCandidates(lines, acc) ==
    IF lines = <<>> THEN acc
    ELSE LET line == Trim(Head(lines))
             branchName == NormalizeOrigin(StripCurrentMarker(line))
         IN  IF Len(line) = 0 THEN BranchCandidates(Tail(lines), acc)
             ELSE IF Includes(branchName, S_HEADArrow)
                  THEN BranchCandidates(Tail(lines), acc)
             ELSE IF branchName = S_HEAD
                  THEN BranchCandidates(Tail(lines), acc)
             ELSE BranchCandidates(Tail(lines), SetAdd(acc, branchName))

IsOriginBranch(b) == StartsWith(b, S_originSlash)
NotOriginBranch(b) == ~StartsWith(b, S_originSlash)

\* the priority order applied once the current branch is known
PickByPriority(branchCandidates, currentLocalBranch) ==
    LET localBranches == SelectSeq(branchCandidates, NotOriginBranch)
        remoteBranches == SelectSeq(branchCandidates, IsOriginBranch)
    IN  IF currentLocalBranch # <<>> /\ SetHas(branchCandidates, currentLocalBranch)
        THEN currentLocalBranch
        ELSE IF SetHas(branchCandidates, S_main) THEN S_main
        ELSE IF SetHas(branchCandidates, S_master) THEN S_master
        ELSE IF Len(localBranches) > 0 THEN localBranches[1]
        ELSE IF SetHas(branchCandidates, S_originMain) THEN S_originMain
        ELSE IF SetHas(branchCandidates, S_originMaster) THEN S_originMaster
        ELSE IF Len(remoteBranches) > 0 THEN remoteBranches[1]
        ELSE branchCandidates[1]

\* the body of the try block of getCommitBranchInfo (script): `contains` is
\* the outcome of `git branch -a --contains <hash>`, `current` the outcome
\* of `git branch --show-current`, which is run only when there are
\* candidates
ScriptBranchInfoBody(contains, current) ==
    IF ~contains.ok THEN Thrown
    ELSE LET branchCandidates == BranchCandidates(contains.out, <<>>)
         IN  IF Len(branchCandidates) = 0 THEN Returned(S_unknown)
             ELSE IF ~current.ok THEN Thrown
             ELSE Returned(PickByPriority(branchCandidates, Trim(current.out)))

getCommitBranchInfoScript(contains, current) ==
    TryCatch(ScriptBranchInfoBody(contains, current), S_unknown)

\* lib/utils.js: output.split('\n').map(l => l.trim().replace(/^\* /, ''))
\*                     .filter(Boolean)
RECURSIVE LibBranches(_)
LibBranches(lines) ==
    IF lines = <<>> THEN <<>>
    ELSE LET b == StripCurrentMarker(Trim(Head(lines)))
         IN  IF b = <<>> THEN LibBranches(Tail(lines))
             ELSE <<b>> \o LibBranches(Tail(lines))

NotRemotesBranch(b) == ~StartsWith(b, S_remotesSlash)

LibBranchInfoBody(contains) ==
    IF ~contains.ok THEN Thrown
    ELSE LET branches == LibBranches(contains.out)
             locals == SelectSeq(branches, NotRemotesBranch)
         IN  IF Len(branches) > 0
             THEN Returned(IF Len(locals) > 0 THEN locals[1] ELSE branches[1])
             ELSE Returned(S_unknown)

getCommitBranchInfoLib(contains) ==
    TryCatch(LibBranchInfoBody(contains), S_unknown)

\* --------------------------------------------- fast path on the decoration
Min(S) == CHOOSE x \in S : \A y \in S : x <= y

AtPos(s, i, lit) ==
    i + Len(lit) - 1 <= Len(s) /\ SubSeq(s, i, i + Len(lit) - 1) = lit

\* capture group 1 of a match, or <<>> for "no match" (a capture of
\* [\w\/\-\.]+ is never empty)
NoMatch == <<>>

\* refNamesRaw.match(/HEAD -> ([\w\/\-\.]+)/)
HeadBranchMatch(s) ==
    LET at == {i \in 1..Len(s) :
                  AtPos(s, i, S_HEADArrowSp) /\ RefRun(s, i + Len(S_HEADArrowSp)) > 0}
    IN  IF at = {} THEN NoMatch
        ELSE LET from == Min(at) + Len(S_HEADArrowSp)
             IN  SubSeq(s, from, from + RefRun(s, from) - 1)

\* /(?:(?:origin\/)|(?:tag:))?([\w\/\-\.]+)/ tried at position i: the
\* alternatives of the optional prefix in order, then the empty prefix
GeneralRefMatchAt(s, i) ==
    LET afterOrigin == i + Len(S_originSlash)
        afterTag == i + Len(S_tagColon)
    IN  IF AtPos(s, i, S_originSlash) /\ RefRun(s, afterOrigin) > 0
        THEN SubSeq(s, afterOrigin, afterOrigin + RefRun(s, afterOrigin) - 1)
        ELSE IF AtPos(s, i, S_tagColon) /\ RefRun(s, afterTag) > 0
        THEN SubSeq(s, afterTag, afterTag + RefRun(s, afterTag) - 1)
        ELSE IF RefRun(s, i) > 0
        THEN SubSeq(s, i, i + RefRun(s, i) - 1)
        ELSE NoMatch

\* refNamesRaw.match(...): the leftmost position where the pattern matches
GeneralRefMatch(s) ==
    LET at == {i \in 1..Len(s) : GeneralRefMatchAt(s, i) # NoMatch}
    IN  IF at = {} THEN NoMatch ELSE GeneralRefMatchAt(s, Min(at))

\* FIRST ATTEMPT of parseGitLog (script): the label taken from %D
FastPathBranch(refNamesRaw) ==
    LET headBranchMatch == HeadBranchMatch(refNamesRaw)
        generalRefMatch == GeneralRefMatch(refNamesRaw)
    IN  IF headBranchMatch # NoMatch THEN headBranchMatch
        ELSE IF Includes(refNamesRaw, S_originMain) THEN S_originMain
        ELSE IF Includes(refNamesRaw, S_main) THEN S_main
        ELSE IF Includes(refNamesRaw, S_originMaster) THEN S_originMaster
        ELSE IF Includes(refNamesRaw, S_master) THEN S_master
        ELSE IF generalRefMatch # NoMatch /\ generalRefMatch # S_HEAD
        THEN IF Includes(refNamesRaw, S_originSlash \o generalRefMatch)
                /\ ~StartsWith(generalRefMatch, S_originSlash)
             THEN S_originSlash \o generalRefMatch
             ELSE generalRefMatch
        ELSE S_unknown

\* ---------------------------------------------------------- LogRecordParser
\* new Date(text).  The model writes a date as the decimal count of hours
\* since the epoch; any other text gives an Invalid Date (NaN).
ParseDate(text) ==
    IF text = Undefined \/ text = <<>> \/ DigitRun(text, 1) # Len(text)
    THEN NotANumber
    ELSE Num(DigitsValue(text, 1, Len(text)))

\* currentCommit is null (<<>>) or holds one record (<<record>>)
Null == <<>>

NewCommit(parts, branch) ==
    [hash |-> Part(parts, 0),
     author |-> Part(parts, 1),
     email |-> Part(parts, 2),
     date |-> ParseDate(Part(parts, 3)),
     message |-> Part(parts, 4),
     branch |-> branch,
     additions |-> 0,
     deletions |-> 0,
     files |-> <<>>]

\* the two tests of the scanning loop
IsHeaderLine_AnySeparator(line) == Includes(line, <<BAR>>)

IsHeaderLine(line) == Includes(line, <<BAR>>) /\ ~MatchNumstat(line)
IsFileLine(line) == MatchNumstat(line)

\* the else-if branch: a file change line added to the open record
AddFileLine_SumsBeforeLengthTest(commit, line) ==
    LET parts == Split(line, TAB)
        additions == OrZero(ParseInt(Part(parts, 0)))
        deletions == OrZero(ParseInt(Part(parts, 1)))
        summed == [commit EXCEPT !.additions = @ + additions,
                                 !.deletions = @ + deletions]
    IN  IF Len(parts) >= 3
        THEN [summed EXCEPT
                 !.files = Append(@, [filename |-> Part(parts, 2),
                                      additions |-> additions,
                                      deletions |-> deletions])]
        ELSE summed

AddFileLine(commit, line) ==
    LET parts == Split(line, TAB)
        additions == OrZero(ParseInt(Part(parts, 0)))
        deletions == OrZero(ParseInt(Part(parts, 1)))
    IN  IF Len(parts) >= 3
        THEN [commit EXCEPT
                 !.additions = @ + additions,
                 !.deletions = @ + deletions,
                 !.files = Append(@, [filename |-> Part(parts, 2),
                                      additions |-> additions,
                                      deletions |-> deletions])]
        ELSE commit

\* the label of a header line in the script: the decoration first, the
\* containment query only when the decoration gave nothing
\* the containment query is made for every header line
ScriptBranch_QueriesFirst(parts, contains, current) ==
    getCommitBranchInfoScript(contains, current)

ScriptBranch(parts, contains, current) ==
    LET raw == Part(parts, 5)
        refNamesRaw == IF raw = Undefined THEN <<>> ELSE raw
        displayBranch == FastPathBranch(refNamesRaw)
    IN  IF displayBranch = S_unknown /\ Part(parts, 0) # <<>>
        THEN getCommitBranchInfoScript(contains, current)
        ELSE Returned(displayBranch)

\* whether the script issues the containment query for this header line
ScriptQueries(parts) ==
    LET raw == Part(parts, 5)
        refNamesRaw == IF raw = Undefined THEN <<>> ELSE raw
    IN  FastPathBranch(refNamesRaw) = S_unknown /\ Part(parts, 0) # <<>>

\* the label of a header line in lib/utils.js: always the query
LibBranch(parts, contains) == getCommitBranchInfoLib(contains)

\* one iteration of `for (const line of lines)`: st is the pair
\* (commits, currentCommit); an exception leaving getCommitBranchInfo would
\* leave parseGitLog too
ScanStep(variant, st, line, contains, current) ==
    IF IsHeaderLine(line)
    THEN LET parts == Split(line, BAR)
             label == IF variant = "lib" THEN LibBranch(parts, contains)
                      ELSE ScriptBranch(parts, contains, current)
         IN  IF label.threw
             THEN [st EXCEPT !.aborted = TRUE]
             ELSE [st EXCEPT
                      !.commits = IF st.currentCommit # Null
                                  THEN Append(@, st.currentCommit[1]) ELSE @,
                      !.currentCommit = <<NewCommit(parts, label.val)>>]
    ELSE IF IsFileLine(line) /\ st.currentCommit # Null
    THEN [st EXCEPT !.currentCommit = <<AddFileLine(@[1], line)>>]
    ELSE st

\* after the loop: if (currentCommit) commits.push(currentCommit)
FinishScan(st) ==
    IF st.currentCommit # Null
    THEN [st EXCEPT !.commits = Append(@, st.currentCommit[1])]
    ELSE st

\* ------------------------------------------------------------ input texts
\* Number.prototype.toString for a natural number (what the log writer does)
RECURSIVE ToDecimal(_)
ToDecimal(n) ==
    LET d == <<"0", "1", "2", "3", "4", "5", "6", "7", "8", "9">>[(n % 10) + 1]
    IN  IF n < 10 THEN <<d>> ELSE Append(ToDecimal(n \div 10), d)

S_hashA == <<"a", "1">>
S_hashDigits == <<"1", "2">>
S_author == <<"A", "l">>
S_email == <<"a", "@", "x">>
S_date == <<"7">>
S_message == <<"f", "i", "x">>
S_dev == <<"d", "e", "v">>
S_file == <<"f", ".", "j", "s">>
S_fileBar == <<"a", "|", "b">>

\* header line `hash|author|email|date|message`
HeaderLine(hash, message) ==
    Join(<<hash, S_author, S_email, S_date, message>>, <<BAR>>)

\* header line of the script's format, with the %D decoration appended
DecoratedHeaderLine(hash, refNames) ==
    HeaderLine(hash, S_message) \o <<BAR>> \o refNames

\* numstat line `additions<TAB>deletions<TAB>filename`
NumstatLine(additions, deletions, filename) ==
    Join(<<additions, deletions, filename>>, <<TAB>>)

\* the lines a log text is made of in the general runs: headers with and
\* without decoration (one with an empty hash), numeric file lines (one
\* whose filename holds the separator), binary file lines, a blank line,
\* free text, and a line of numbers separated by spaces only
LogLines ==
    {HeaderLine(S_hashA, S_message),
     DecoratedHeaderLine(S_hashA, S_HEADArrowSp \o S_dev),
     DecoratedHeaderLine(<<>>, <<>>),
     NumstatLine(<<"3">>, <<"2">>, S_file),
     NumstatLine(<<"1", "0">>, <<"0">>, S_fileBar),
     NumstatLine(<<"-">>, <<"-">>, S_file),
     NumstatLine(<<"-">>, <<"-">>, S_fileBar),
     <<>>,
     <<"o", "o", "p", "s">>,
     <<"1", " ", "2", " ", "f">>}

\* outcomes of `git branch -a --contains` / `git branch --show-current`
\* in the parser runs
S_starDev == S_starSp \o S_dev
S_detached == <<"(">> \o S_HEAD \o <<" ", "d", "e", "t", "a", "c", "h", "e", "d",
                                     " ", "a", "t", " ", "a", "1", ")">>

ParserContains ==
    {ExecFailed, ExecOutput(<<<<>>>>), ExecOutput(<<S_starDev>>)}
ParserCurrent == {ExecFailed, ExecOutput(S_dev)}

\* ------------------------------------------------------------------ state
VARIABLES
    variant,        \* "lib" (lib/utils.js) or "script" (single-repository)
    commits,        \* parseGitLog: the finished records
    currentCommit,  \* parseGitLog: the in-progress record, or Null
    pc,             \* "scan", "done" or "aborted" (an exception escaped)
    input,          \* the lines scanned so far
    queries,        \* the queries made for each header line scanned
    supplied,       \* the records the round-trip log text was built from
    attribution,    \* the latest call of the branch attributor on its own
    aggInput,       \* the commit sequence handed to the aggregator
    report,         \* what generateUserStats / generateProjectStats returned
    timing,         \* a call of calculateTimingStats on its own
    classified,     \* a call of classifyCommit
    hotspots,       \* a call of findFileHotspots
    risk,           \* a call of calculateRiskLevel
    quality,        \* a call of one of the quality metrics
    scan,           \* the multi-repository scan (scattered run)
    focus           \* a call of calculateFocusTime

parserVars == <<variant, commits, currentCommit, pc, input, queries, supplied>>
aggVars == <<aggInput, report>>
analysisVars == <<timing, classified, hotspots, risk, quality, scan, focus>>
vars == <<variant, commits, currentCommit, pc, input, queries, supplied,
          attribution, aggInput, report,
          timing, classified, hotspots, risk, quality, scan, focus>>

NoReport == [op |-> "none", users |-> <<>>, project |-> <<>>]

\* no call made yet
NoCall == [op |-> "none"]

\* classifyCommit not called yet, and no message written
NoMessage ==
    [op |-> "none", started |-> FALSE, message |-> <<>>,
     head |-> [kind |-> "none"], words |-> <<>>]

NoAttribution ==
    [op |-> "none", head |-> <<>>, listed |-> <<>>,
     contains |-> ExecFailed, current |-> ExecFailed,
     refNames |-> <<>>, label |-> <<>>]

NoQuery == [asked |-> FALSE, contains |-> ExecFailed,
            askedCurrent |-> FALSE, current |-> ExecFailed]

\* which queries the scan of `line` makes, with their outcomes
QueriesOf(v, line, contains, current) ==
    LET parts == Split(line, BAR)
        asked == IsHeaderLine(line) /\ (v = "lib" \/ ScriptQueries(parts))
        askedCurrent == asked /\ v = "script" /\ contains.ok
                        /\ Len(BranchCandidates(contains.out, <<>>)) > 0
    IN  IF ~asked THEN NoQuery
        ELSE [asked |-> TRUE, contains |-> contains,
              askedCurrent |-> askedCurrent,
              current |-> IF askedCurrent THEN current ELSE ExecFailed]

Init ==
    /\ variant \in {"lib", "script"}
    /\ commits = <<>>
    /\ currentCommit = Null
    /\ pc = "scan"
    /\ input = <<>>
    /\ queries = <<>>
    /\ supplied = <<>>
    /\ attribution = NoAttribution
    /\ aggInput = <<>>
    /\ report = NoReport
    /\ timing = [op |-> "none", commits |-> <<>>]
    /\ classified = NoMessage
    /\ hotspots = [op |-> "none", commits |-> <<>>]
    /\ risk = NoCall
    /\ quality = [op |-> "none", input |-> <<>>]
    /\ scan = [phase |-> "found", repos |-> <<>>, next |-> 1, projects |-> <<>>]
    /\ focus = [op |-> "none", commits |-> <<>>]

\* the scan of one line, with the outcomes of the queries it may make
Scan(line, contains, current) ==
    LET st == ScanStep(variant,
                       [commits |-> commits, currentCommit |-> currentCommit,
                        aborted |-> FALSE],
                       line, contains, current)
    IN  /\ pc = "scan"
        /\ commits' = st.commits
        /\ currentCommit' = st.currentCommit
        /\ pc' = IF st.aborted THEN "aborted" ELSE "scan"
        /\ input' = Append(input, line)
        /\ queries' = IF IsHeaderLine(line)
                      THEN Append(queries,
                                  QueriesOf(variant, line, contains, current))
                      ELSE queries
        /\ UNCHANGED <<variant, attribution, aggVars, analysisVars>>

ScanLine ==
    /\ Len(input) < MaxLines
    /\ \E line \in LogLines, contains \in ParserContains, current \in ParserCurrent :
          Scan(line, contains, current)
    /\ UNCHANGED supplied

Finish ==
    /\ pc = "scan"
    /\ commits' = FinishScan([commits |-> commits,
                              currentCommit |-> currentCommit]).commits
    /\ pc' = "done"
    /\ UNCHANGED <<variant, currentCommit, input, queries, supplied,
                   attribution, aggVars, analysisVars>>

Next == ScanLine \/ Finish

Spec == Init /\ [][Next]_vars

\* ------------------------------------------------ round-trip log texts
\* a log text built from known records: each header line is followed at
\* once by the file lines of its record
RoundTripHashes == {S_hashA, S_hashDigits}

\* a plain subject, and one that holds the separator
RoundTripMessages == {S_message, S_fileBar}

RoundTripFiles ==
    {[filename |-> S_file, additions |-> 3, deletions |-> 2],
     [filename |-> S_fileBar, additions |-> 10, deletions |-> 0],
     [filename |-> S_file, additions |-> 0, deletions |-> 0],
     [filename |-> S_file, additions |-> 10, deletions |-> 2],
     [filename |-> S_fileBar, additions |-> 3, deletions |-> 0]}

EmitHeader ==
    /\ Len(input) < MaxEmit
    /\ \E hash \in RoundTripHashes, message \in RoundTripMessages,
          contains \in {ExecFailed, ExecOutput(<<S_starDev>>)} :
          /\ Scan(HeaderLine(hash, message), contains, ExecOutput(S_dev))
          /\ supplied' = Append(supplied, [hash |-> hash, files |-> <<>>])

EmitFile ==
    /\ Len(input) < MaxEmit
    /\ supplied # <<>>
    /\ \E f \in RoundTripFiles :
          /\ Scan(NumstatLine(ToDecimal(f.additions), ToDecimal(f.deletions),
                              f.filename),
                  ExecFailed, ExecFailed)
          /\ supplied' = [supplied EXCEPT ![Len(supplied)].files = Append(@, f)]

NextRoundTrip == EmitHeader \/ EmitFile \/ (Finish /\ supplied # <<>>)

SpecRoundTrip == Init /\ [][NextRoundTrip]_vars

\* ------------------------------------------------------- parser properties
RECURSIVE SumOf(_, _)
SumOf(files, field) ==
    IF files = <<>> THEN 0 ELSE Head(files)[field] + SumOf(Tail(files), field)

SumsMatch(rec) ==
    /\ rec.additions = SumOf(rec.files, "additions")
    /\ rec.deletions = SumOf(rec.files, "deletions")

\* C1: every finished record, and the in-progress record after every
\* scanned line, has additions = sum of files[].additions and
\* deletions = sum of files[].deletions
C1_SumInvariant ==
    /\ \A i \in 1..Len(commits) : SumsMatch(commits[i])
    /\ currentCommit # Null => SumsMatch(currentCommit[1])

\* a finished run returned a record with a file and non-zero sums, after a
\* line of numbers without tabs was scanned for it
C1_Witness ==
    /\ pc = "done"
    /\ \E i \in 1..Len(commits) :
          /\ Len(commits[i].files) >= 1
          /\ commits[i].additions > 0
          /\ commits[i].deletions > 0
    /\ \E k \in 1..Len(input) :
          MatchNumstat(input[k]) /\ Len(Split(input[k], TAB)) < 3

\* the records parsed so far, the in-progress one last
ParsedSoFar == IF pc = "done" THEN commits ELSE commits \o currentCommit

\* C2: a log text built from N records (header line, then its file lines)
\* parses to exactly N records, in the order emitted, each with the files
\* (order and values) and the sums supplied
C2_RoundTrip ==
    /\ pc # "aborted"
    /\ Len(ParsedSoFar) = Len(supplied)
    /\ \A i \in 1..Len(supplied) :
          /\ ParsedSoFar[i].hash = supplied[i].hash
          /\ ParsedSoFar[i].files = supplied[i].files
          /\ ParsedSoFar[i].additions = SumOf(supplied[i].files, "additions")
          /\ ParsedSoFar[i].deletions = SumOf(supplied[i].files, "deletions")

\* a finished run over two records, the first with two file lines (one
\* filename holding the separator), the second with an all-digit hash
C2_Witness ==
    /\ pc = "done"
    /\ Len(supplied) = 2
    /\ Len(supplied[1].files) = 2
    /\ \E k \in 1..2 : supplied[1].files[k].filename = S_fileBar
    /\ supplied[2].hash = S_hashDigits
    /\ Len(commits) = 2

\* the binary file line of the input format: `-<TAB>-<TAB>filename`
IsBinaryFileLine(line) ==
    LET parts == Split(line, TAB)
    IN  Len(parts) >= 3 /\ parts[1] = <<"-">> /\ parts[2] = <<"-">>

\* C3: a binary file line that follows a header is attached to the open
\* record with additions 0 and deletions 0 and is not taken for a header,
\* even when its filename holds the separator
C3_BinaryLineAttached ==
    [][\A line \in LogLines :
          (/\ pc = "scan"
           /\ currentCommit # Null
           /\ \A k \in 1..Len(input) : ~IsBinaryFileLine(input[k])
           /\ IsBinaryFileLine(line)
           /\ input' = Append(input, line))
          => /\ commits' = commits
             /\ currentCommit' # Null
             /\ currentCommit'[1].hash = currentCommit[1].hash
             /\ currentCommit'[1].files =
                   Append(currentCommit[1].files,
                          [filename |-> Part(Split(line, TAB), 2),
                           additions |-> 0, deletions |-> 0])]_vars

\* C4: a line that is neither a header line nor a file line, and a file
\* line scanned before any header, is skipped: the finished records and the
\* in-progress record stay as they are, and no exception is raised
C4_MalformedLineSkipped ==
    [][\A line \in LogLines :
          (/\ pc = "scan"
           /\ input' = Append(input, line)
           /\ \/ ~IsHeaderLine(line) /\ ~IsFileLine(line)
              \/ IsFileLine(line) /\ currentCommit = Null)
          => /\ commits' = commits
             /\ currentCommit' = currentCommit
             /\ pc' = "scan"]_vars

\* a blank line was scanned while a record was open, and a file line (its
\* filename holding the separator) was scanned before any header
C4_Witness ==
    /\ Len(input) >= 3
    /\ IsFileLine(input[1]) /\ Includes(input[1], <<BAR>>)
    /\ IsHeaderLine(input[2])
    /\ input[3] = <<>>
    /\ commits = <<>>
    /\ currentCommit # Null
    /\ currentCommit[1].files = <<>>

\* the number of header lines among the first n lines scanned
RECURSIVE HeaderCount(_, _)
HeaderCount(lines, n) ==
    IF n = 0 THEN 0
    ELSE HeaderCount(lines, n - 1) + (IF IsHeaderLine(lines[n]) THEN 1 ELSE 0)

\* the containment query returned no branch name at all
NoBranchListed(out) == \A k \in 1..Len(out) : Trim(out[k]) = <<>>

\* the queries made for a header failed or listed no branch
QueryFailed(q) ==
    /\ q.asked
    /\ \/ ~q.contains.ok
       \/ NoBranchListed(q.contains.out)
       \/ q.askedCurrent /\ ~q.current.ok

S_upstreamDev == S_remotesSlash \o <<"u", "p", "s", "t", "r", "e", "a", "m", "/">> \o S_dev
S_maintenance == <<"f", "e", "a", "t", "u", "r", "e", "/", "m", "a", "i", "n",
                   "t", "e", "n", "a", "n", "c", "e">>
S_topic == <<"t", "o", "p", "i", "c">>
S_tagV1 == S_tagColon \o <<" ", "v", "1">>
S_commaSp == <<",", " ">>

\* the lines `git branch -a` can print for a repository with the local
\* branches dev, main, master and the remotes origin and upstream, in the
\* order it prints them: the detached-HEAD marker, the local branches, the
\* remote-tracking branches.  `name` is the branch the line stands for.
BranchListing ==
    <<[kind |-> "detached", text |-> S_detached, name |-> S_detached],
      [kind |-> "local", text |-> S_dev, name |-> S_dev],
      [kind |-> "local", text |-> S_main, name |-> S_main],
      [kind |-> "local", text |-> S_master, name |-> S_master],
      [kind |-> "pointer",
       text |-> S_remotesOriginSlash \o S_HEADArrowSp \o S_originMain,
       name |-> <<>>],
      [kind |-> "remote", text |-> S_remotesOriginSlash \o S_dev,
       name |-> S_originSlash \o S_dev],
      [kind |-> "remote", text |-> S_remotesOriginSlash \o S_main,
       name |-> S_originMain],
      [kind |-> "remote", text |-> S_remotesOriginSlash \o S_master,
       name |-> S_originMaster],
      [kind |-> "remote", text |-> S_upstreamDev, name |-> S_upstreamDev]>>

\* what is checked out: a local branch, or nothing (detached HEAD)
Heads == {<<>>, S_dev, S_main, S_master, S_topic}

\* the entries of a listing picked by the index set P, in listing order
RECURSIVE PickFrom(_, _, _)
PickFrom(listing, P, i) ==
    IF i > Len(listing) THEN <<>>
    ELSE (IF i \in P THEN <<listing[i]>> ELSE <<>>) \o PickFrom(listing, P, i + 1)

\* the branches containing a commit, as index sets of BranchListing: the
\* marker only with a detached HEAD, origin/HEAD only along with the
\* branch it points to
ContainingSets(head) ==
    {P \in SUBSET (1..Len(BranchListing)) :
        /\ Cardinality(P) <= MaxQueryLines
        /\ 1 \in P => head = <<>>
        /\ 5 \in P => 7 \in P}

\* one printed line: `* ` before the checked-out entry, two spaces otherwise
ListingLine(entry, head) ==
    IF entry.kind = "detached" \/ (entry.kind = "local" /\ entry.name = head)
    THEN S_starSp \o entry.text
    ELSE <<SP, SP>> \o entry.text

\* the output of `git branch -a --contains`, as its lines
RECURSIVE ListingLines(_, _)
ListingLines(entries, head) ==
    IF entries = <<>> THEN <<>>
    ELSE <<ListingLine(Head(entries), head)>> \o ListingLines(Tail(entries), head)

ContainsOutput(entries, head) ==
    IF entries = <<>> THEN <<<<>>>> ELSE ListingLines(entries, head)

\* the refs of a %D decoration, in the order git log lists them: HEAD
\* first, then tags, remote-tracking branches, local branches
DecorationListing ==
    <<[kind |-> "head", text |-> S_HEADArrowSp \o S_dev, name |-> S_dev],
      [kind |-> "head", text |-> S_HEADArrowSp \o S_main, name |-> S_main],
      [kind |-> "bareHead", text |-> S_HEAD, name |-> <<>>],
      [kind |-> "tag", text |-> S_tagV1, name |-> <<"v", "1">>],
      [kind |-> "branch", text |-> S_originSlash \o S_dev,
       name |-> S_originSlash \o S_dev],
      [kind |-> "branch", text |-> S_originMain, name |-> S_originMain],
      [kind |-> "branch", text |-> S_originMaster, name |-> S_originMaster],
      [kind |-> "bareHead", text |-> S_originSlash \o S_HEAD, name |-> <<>>],
      [kind |-> "branch", text |-> S_dev, name |-> S_dev],
      [kind |-> "branch", text |-> S_maintenance, name |-> S_maintenance],
      [kind |-> "branch", text |-> S_main, name |-> S_main],
      [kind |-> "branch", text |-> S_master, name |-> S_master]>>

DecorationSets ==
    {P \in SUBSET (1..Len(DecorationListing)) :
        /\ Cardinality(P) <= MaxRefs
        /\ Cardinality(P \cap {1, 2, 3}) <= 1
        /\ 8 \in P => 6 \in P}

RECURSIVE Texts(_)
Texts(entries) ==
    IF entries = <<>> THEN <<>> ELSE <<Head(entries).text>> \o Texts(Tail(entries))

\* the %D text of a commit decorated with these refs
DecorationText(entries) == Join(Texts(entries), S_commaSp)

\* getCommitBranchInfo of the script called for a commit of a repository
\* whose HEAD is `head`; either query may fail
SlowFallback ==
    \E head \in Heads, containsOk \in BOOLEAN, currentOk \in BOOLEAN :
      \E P \in ContainingSets(head) :
        LET listed == PickFrom(BranchListing, P, 1)
            contains == IF containsOk
                        THEN ExecOutput(ContainsOutput(listed, head))
                        ELSE ExecFailed
            current == IF currentOk THEN ExecOutput(head \o <<NL>>)
                       ELSE ExecFailed
        IN  /\ attribution.op = "none"
            /\ containsOk \/ P = {}
            /\ attribution' =
                  [op |-> "slow", head |-> head, listed |-> listed,
                   contains |-> contains, current |-> current,
                   refNames |-> <<>>,
                   label |-> getCommitBranchInfoScript(contains, current).val]
            /\ UNCHANGED <<parserVars, aggVars, analysisVars>>

\* the first attempt of the script's parseGitLog on a %D decoration
FastPath ==
    \E P \in DecorationSets :
        LET refs == PickFrom(DecorationListing, P, 1)
        IN  /\ attribution.op = "none"
            /\ attribution' =
                  [op |-> "fast", head |-> <<>>, listed |-> refs,
                   contains |-> ExecFailed, current |-> ExecFailed,
                   refNames |-> DecorationText(refs),
                   label |-> FastPathBranch(DecorationText(refs))]
            /\ UNCHANGED <<parserVars, aggVars, analysisVars>>

NextBranch == SlowFallback \/ FastPath

SpecBranch == Init /\ [][NextBranch]_vars

\* getCommitBranchInfo of lib/utils.js called for a commit of a repository
\* whose HEAD is `head`; the query may fail
LibQuery ==
    \E head \in Heads, containsOk \in BOOLEAN :
      \E P \in ContainingSets(head) :
        LET listed == PickFrom(BranchListing, P, 1)
            contains == IF containsOk
                        THEN ExecOutput(ContainsOutput(listed, head))
                        ELSE ExecFailed
        IN  /\ attribution.op = "none"
            /\ containsOk \/ P = {}
            /\ attribution' =
                  [op |-> "lib", head |-> head, listed |-> listed,
                   contains |-> contains, current |-> ExecFailed,
                   refNames |-> <<>>,
                   label |-> getCommitBranchInfoLib(contains).val]
            /\ UNCHANGED <<parserVars, aggVars, analysisVars>>

NextLibBranch == LibQuery

SpecLibBranch == Init /\ [][NextLibBranch]_vars

\* ---------------------------------------------------- attributor properties
\* the names of the entries of one kind, in listing order
RECURSIVE NamesOfKind(_, _)
NamesOfKind(entries, kind) ==
    IF entries = <<>> THEN <<>>
    ELSE (IF Head(entries).kind = kind THEN <<Head(entries).name>> ELSE <<>>)
         \o NamesOfKind(Tail(entries), kind)

Elems(seq) == {seq[i] : i \in 1..Len(seq)}

\* the labels the priority order (a)..(h) allows for the local and remote
\* branches that contain the commit and the checked-out branch
PriorityLabels(locals, remotes, head) ==
    IF head # <<>> /\ head \in Elems(locals) THEN {head}
    ELSE IF S_main \in Elems(locals) THEN {S_main}
    ELSE IF S_master \in Elems(locals) THEN {S_master}
    ELSE IF locals # <<>> THEN {locals[1]}
    ELSE IF S_originMain \in Elems(remotes) THEN {S_originMain}
    ELSE IF S_originMaster \in Elems(remotes) THEN {S_originMaster}
    ELSE IF remotes # <<>> THEN Elems(remotes)
    ELSE {S_unknown}

\* C5: the slow fallback returns the first that applies of (a) the current
\* local branch, (b) main, (c) master, (d) another local branch,
\* (e) origin/main, (f) origin/master, (g) another remote branch,
\* (h) unknown; never a remote branch while a local one is a candidate
\* (the marker of a detached HEAD is counted with the local candidates, as
\* the code counts it)
C5_SlowFallbackPriority ==
    (attribution.op = "slow" /\ attribution.contains.ok /\ attribution.current.ok)
    => attribution.label \in
          PriorityLabels(NamesOfKind(attribution.listed, "detached")
                            \o NamesOfKind(attribution.listed, "local"),
                         NamesOfKind(attribution.listed, "remote"),
                         attribution.head)

\* the label the decoration's refs call for: the checked-out pointer, else
\* a default branch listed as a ref, else the first ref that can be parsed
\* (a bare HEAD cannot; when it comes first the fast path may also give up)
DecorationLabels(refs) ==
    LET heads == NamesOfKind(refs, "head")
        branches == NamesOfKind(refs, "branch")
        named == NamesOfKind(refs, "tag") \o branches
        defaults == Elems(branches)
                    \cap {S_main, S_master, S_originMain, S_originMaster}
    IN  IF heads # <<>> THEN {heads[1]}
        ELSE IF defaults # {} THEN defaults
        ELSE IF named = <<>> THEN {S_unknown}
        ELSE IF refs[1].kind = "bareHead" THEN {named[1], S_unknown}
        ELSE {named[1]}

\* C7: fast path: `HEAD -> X` gives X whatever else is listed; otherwise a
\* default branch (main, master) listed as a ref gives that branch;
\* otherwise the first parseable ref is the label
C7_FastPathOrder ==
    attribution.op = "fast"
    => attribution.label \in DecorationLabels(attribution.listed)

\* ------------------------------------------------------------- Aggregator
MsPerHour == 3600000
HoursPerDay == 24

\* x / y, then Math.round: NaN for 0 / 0, and x / 0 is not finite either;
\* for y > 0 and x >= 0 the nearest integer, halves rounded up
MathRoundDiv_Floors(x, y) == IF y = 0 THEN NotANumber ELSE Num(x \div y)

MathRoundDiv(x, y) ==
    IF y = 0 THEN NotANumber ELSE Num((2 * x + y) \div (2 * y))

\* a.date - b.date in milliseconds
DateDiff(a, b) == (a.date[1] - b.date[1]) * MsPerHour

\* Array.prototype.sort (stable) with (a, b) => a.date - b.date
RECURSIVE InsertAsc(_, _)
InsertAsc(sorted, x) ==
    IF sorted = <<>> THEN <<x>>
    ELSE IF DateDiff(Head(sorted), x) <= 0
    THEN <<Head(sorted)>> \o InsertAsc(Tail(sorted), x)
    ELSE <<x>> \o sorted

RECURSIVE SortByDateAsc(_)
SortByDateAsc(cs) ==
    IF cs = <<>> THEN <<>>
    ELSE InsertAsc(SortByDateAsc(SubSeq(cs, 1, Len(cs) - 1)), cs[Len(cs)])

\* Array.prototype.sort (stable) with (a, b) => b.date - a.date
RECURSIVE InsertDesc(_, _)
InsertDesc(sorted, x) ==
    IF sorted = <<>> THEN <<x>>
    ELSE IF DateDiff(x, Head(sorted)) <= 0
    THEN <<Head(sorted)>> \o InsertDesc(Tail(sorted), x)
    ELSE <<x>> \o sorted

RECURSIVE SortByDateDesc(_)
SortByDateDesc(cs) ==
    IF cs = <<>> THEN <<>>
    ELSE InsertDesc(SortByDateDesc(SubSeq(cs, 1, Len(cs) - 1)), cs[Len(cs)])

RECURSIVE TotalTimeDiff(_, _)
TotalTimeDiff(sortedCommits, i) ==
    IF i > Len(sortedCommits) THEN 0
    ELSE DateDiff(sortedCommits[i], sortedCommits[i - 1])
         + TotalTimeDiff(sortedCommits, i + 1)

\* avgDays taken from the mean in milliseconds, not from avgHours
TimingOf_DaysFromRaw(cs) ==
    LET sortedCommits == SortByDateAsc(cs)
        totalTimeDiff == TotalTimeDiff(sortedCommits, 2)
        gaps == Len(sortedCommits) - 1
    IN  [avgHours |-> MathRoundDiv(totalTimeDiff, gaps * MsPerHour),
         avgDays |-> MathRoundDiv((totalTimeDiff \div MsPerHour) * 10,
                                  gaps * HoursPerDay)]

\* avgDays is held in tenths of a day (Math.round(x * 10) / 10)
TimingOf(cs) ==
    LET sortedCommits == SortByDateAsc(cs)
        totalTimeDiff == TotalTimeDiff(sortedCommits, 2)
        avgHours == MathRoundDiv(totalTimeDiff, (Len(sortedCommits) - 1) * MsPerHour)
        avgDays == IF avgHours = NotANumber THEN NotANumber
                   ELSE MathRoundDiv(avgHours[1] * 10, HoursPerDay)
    IN  [avgHours |-> avgHours, avgDays |-> avgDays]

calculateTimingStats(cs) ==
    IF Len(cs) < 2 THEN [avgHours |-> Num(0), avgDays |-> Num(0)]
    ELSE TimingOf(cs)

\* `${commit.author}|${commit.email}`
userKey(commit) == commit.author \o <<BAR>> \o commit.email

\* the loop of generateUserStats: users is a Map, held as the sequence of
\* its entries in insertion order
RECURSIVE GroupUsers(_, _)
GroupUsers(cs, users) ==
    IF cs = <<>> THEN users
    ELSE LET commit == Head(cs)
             key == userKey(commit)
             known == \E i \in 1..Len(users) : users[i].key = key
             withKey == IF known THEN users
                        ELSE Append(users,
                                    [key |-> key,
                                     name |-> commit.author,
                                     email |-> commit.email,
                                     commits |-> <<>>,
                                     totalCommits |-> 0,
                                     totalAdditions |-> 0,
                                     totalDeletions |-> 0])
             at == CHOOSE i \in 1..Len(withKey) : withKey[i].key = key
         IN  GroupUsers(Tail(cs),
                 [withKey EXCEPT
                     ![at].commits = Append(@, commit),
                     ![at].totalCommits = @ + 1,
                     ![at].totalAdditions = @ + commit.additions,
                     ![at].totalDeletions = @ + commit.deletions])

\* the summary keeps the latest commit of the author only
UserSummary_LatestOnly(user) ==
    LET sorted == SortByDateDesc(user.commits)
    IN  [name |-> user.name,
         email |-> user.email,
         commits |-> <<sorted[1]>>,
         totalCommits |-> 1,
         totalAdditions |-> sorted[1].additions,
         totalDeletions |-> sorted[1].deletions,
         avgAdditions |-> Num(sorted[1].additions),
         avgDeletions |-> Num(sorted[1].deletions),
         avgTimeBetweenCommits |-> calculateTimingStats(<<sorted[1]>>)]

\* the map() that turns each entry into its summary
UserSummary(user) ==
    LET sorted == SortByDateDesc(user.commits)
    IN  [name |-> user.name,
         email |-> user.email,
         commits |-> sorted,
         totalCommits |-> user.totalCommits,
         totalAdditions |-> user.totalAdditions,
         totalDeletions |-> user.totalDeletions,
         avgAdditions |-> IF user.totalCommits > 0
                          THEN MathRoundDiv(user.totalAdditions, user.totalCommits)
                          ELSE Num(0),
         avgDeletions |-> IF user.totalCommits > 0
                          THEN MathRoundDiv(user.totalDeletions, user.totalCommits)
                          ELSE Num(0),
         avgTimeBetweenCommits |-> calculateTimingStats(sorted)]

generateUserStats(cs) ==
    LET users == GroupUsers(cs, <<>>)
    IN  [i \in 1..Len(users) |-> UserSummary(users[i])]

RECURSIVE Reduce(_, _)
Reduce(cs, field) ==
    IF cs = <<>> THEN 0 ELSE Head(cs)[field] + Reduce(Tail(cs), field)

generateProjectStats_NoGuard(cs) ==
    [totalCommits |-> Len(cs),
     totalAdditions |-> Reduce(cs, "additions"),
     totalDeletions |-> Reduce(cs, "deletions"),
     avgAdditions |-> MathRoundDiv(Reduce(cs, "additions"), Len(cs)),
     avgDeletions |-> MathRoundDiv(Reduce(cs, "deletions"), Len(cs)),
     avgTimeBetweenCommits |-> calculateTimingStats(cs)]

generateProjectStats(cs) ==
    LET totalCommits == Len(cs)
        totalAdditions == Reduce(cs, "additions")
        totalDeletions == Reduce(cs, "deletions")
    IN  [totalCommits |-> totalCommits,
         totalAdditions |-> totalAdditions,
         totalDeletions |-> totalDeletions,
         avgAdditions |-> IF totalCommits > 0
                          THEN MathRoundDiv(totalAdditions, totalCommits)
                          ELSE Num(0),
         avgDeletions |-> IF totalCommits > 0
                          THEN MathRoundDiv(totalDeletions, totalCommits)
                          ELSE Num(0),
         avgTimeBetweenCommits |-> calculateTimingStats(cs)]

\* ------------------------------------------------------ aggregator runs
S_Alice == <<"A", "l", "i", "c", "e">>
S_alice == <<"a", "l", "i", "c", "e">>
S_Bob == <<"B", "o", "b">>
S_aliceMail == <<"a", "l", "i", "c", "e", "@", "x", ".", "c", "o", "m">>
S_bobMail == <<"b", "o", "b", "@", "x", ".", "c", "o", "m">>

\* who commits: one email seen under two spellings of the name, and another
Identities ==
    {[author |-> S_Alice, email |-> S_aliceMail],
     [author |-> S_alice, email |-> S_aliceMail],
     [author |-> S_Bob, email |-> S_bobMail]}

\* additions / deletions of a commit
Sizes == {<<50, 10>>, <<20, 5>>, <<5, 0>>}

\* commit dates, in hours since the epoch
CommitHours == {10, 37}

AddCommit ==
    /\ report.op = "none"
    /\ Len(aggInput) < MaxCommits
    /\ \E who \in Identities, size \in Sizes, hour \in CommitHours :
          aggInput' = Append(aggInput,
                             [author |-> who.author, email |-> who.email,
                              date |-> Num(hour),
                              additions |-> size[1], deletions |-> size[2]])
    /\ UNCHANGED <<parserVars, attribution, report, analysisVars>>

Aggregate ==
    /\ report.op = "none"
    /\ report' = [op |-> "done",
                  users |-> generateUserStats(aggInput),
                  project |-> generateProjectStats(aggInput)]
    /\ UNCHANGED <<parserVars, attribution, aggInput, analysisVars>>

NextAgg == AddCommit \/ Aggregate

SpecAgg == Init /\ [][NextAgg]_vars

\* --------------------------------------------------- aggregator properties
Emails(cs) == {cs[i].email : i \in 1..Len(cs)}

\* C8: generateUserStats returns exactly one summary per distinct email, so
\* commits with the same email and different author names share a summary
C8_GroupedByEmail ==
    report.op = "done"
    => /\ Len(report.users) = Cardinality(Emails(aggInput))
       /\ \A i, j \in 1..Len(report.users) :
             report.users[i].email = report.users[j].email => i = j

\* the commits of the input that carry the name and email of a summary
CommitsOf(s) ==
    {i \in 1..Len(aggInput) :
        aggInput[i].author = s.name /\ aggInput[i].email = s.email}

RECURSIVE SumOver(_, _)
SumOver(I, field) ==
    IF I = {} THEN 0
    ELSE LET i == CHOOSE k \in I : TRUE
         IN  aggInput[i][field] + SumOver(I \ {i}, field)

\* avg is total / count rounded to the nearest integer (halves up)
IsRoundedMean(avg, total, count) ==
    /\ avg # NotANumber
    /\ 2 * avg[1] * count - count <= 2 * total
    /\ 2 * total < 2 * avg[1] * count + count

\* C9: every author summary holds the number of that author's commits, the
\* sums of their additions and deletions and the integer-rounded means;
\* the project summary holds the same over the whole sequence
C9_AggregationTotals ==
    report.op = "done"
    => /\ \A k \in 1..Len(report.users) :
             LET s == report.users[k]
             IN  /\ s.totalCommits = Cardinality(CommitsOf(s))
                 /\ s.totalCommits > 0
                 /\ s.totalAdditions = SumOver(CommitsOf(s), "additions")
                 /\ s.totalDeletions = SumOver(CommitsOf(s), "deletions")
                 /\ IsRoundedMean(s.avgAdditions, s.totalAdditions, s.totalCommits)
                 /\ IsRoundedMean(s.avgDeletions, s.totalDeletions, s.totalCommits)
       /\ report.project.totalCommits = Len(aggInput)
       /\ report.project.totalAdditions = SumOver(1..Len(aggInput), "additions")
       /\ report.project.totalDeletions = SumOver(1..Len(aggInput), "deletions")
       /\ aggInput # <<>> =>
             /\ IsRoundedMean(report.project.avgAdditions,
                              report.project.totalAdditions, Len(aggInput))
             /\ IsRoundedMean(report.project.avgDeletions,
                              report.project.totalDeletions, Len(aggInput))

\* the end-to-end scenario: Alice +50/-10 and +20/-5, Bob +5/-0
C9_Witness ==
    /\ report.op = "done"
    /\ Len(aggInput) = 3
    /\ aggInput[1].author = S_Alice /\ aggInput[1].additions = 50
    /\ aggInput[2].author = S_Alice /\ aggInput[2].additions = 20
    /\ aggInput[3].author = S_Bob /\ aggInput[3].additions = 5
    /\ Len(report.users) = 2
    /\ report.users[1].totalCommits = 2
    /\ report.users[1].totalAdditions = 70
    /\ report.users[1].totalDeletions = 15
    /\ report.users[1].avgAdditions = Num(35)
    /\ report.users[1].avgDeletions = Num(8)
    /\ report.users[2].totalCommits = 1
    /\ report.users[2].totalAdditions = 5
    /\ report.users[2].avgDeletions = Num(0)
    /\ report.project.totalCommits = 3
    /\ report.project.totalAdditions = 75
    /\ report.project.totalDeletions = 15

AverageFields(summary) ==
    {summary.avgAdditions, summary.avgDeletions,
     summary.avgTimeBetweenCommits.avgHours,
     summary.avgTimeBetweenCommits.avgDays}

\* C10: for no commits the project summary has totalCommits 0 and all its
\* averages 0, and there is no author summary; no average of any summary
\* is the result of a division by zero
C10_ZeroDivisionSafe ==
    report.op = "done"
    => /\ aggInput = <<>> =>
             /\ report.project.totalCommits = 0
             /\ AverageFields(report.project) = {Num(0)}
             /\ report.users = <<>>
       /\ NotANumber \notin AverageFields(report.project)
       /\ \A k \in 1..Len(report.users) :
             NotANumber \notin AverageFields(report.users[k])

\* the aggregation of no commits
C10_Witness ==
    /\ report.op = "done"
    /\ aggInput = <<>>
    /\ report.project.avgTimeBetweenCommits = [avgHours |-> Num(0), avgDays |-> Num(0)]

\* ------------------------------------------- calculateTimingStats on its own
MaxTimed == 3

\* commit dates, in hours since the epoch
TimingHours == {0, 3, 7, 37, 100}

AddTimedCommit ==
    /\ timing.op = "none"
    /\ Len(timing.commits) < MaxTimed
    /\ \E hour \in TimingHours :
          timing' = [timing EXCEPT !.commits = Append(@, [date |-> Num(hour)])]
    /\ UNCHANGED <<parserVars, attribution, aggVars,
                   classified, hotspots, risk, quality, scan, focus>>

ComputeTiming ==
    /\ timing.op = "none"
    /\ timing' = [op |-> "done", commits |-> timing.commits,
                  stats |-> calculateTimingStats(timing.commits)]
    /\ UNCHANGED <<parserVars, attribution, aggVars,
                   classified, hotspots, risk, quality, scan, focus>>

NextTiming == AddTimedCommit \/ ComputeTiming

SpecTiming == Init /\ [][NextTiming]_vars

\* the orders of cs by ascending timestamp
AscendingOrders(cs) ==
    {p \in [1..Len(cs) -> 1..Len(cs)] :
        /\ \A i, j \in 1..Len(cs) : p[i] = p[j] => i = j
        /\ \A i \in 1..(Len(cs) - 1) : cs[p[i]].date[1] <= cs[p[i + 1]].date[1]}

RECURSIVE GapHours(_, _, _)
GapHours(cs, p, i) ==
    IF i > Len(cs) THEN 0
    ELSE cs[p[i]].date[1] - cs[p[i - 1]].date[1] + GapHours(cs, p, i + 1)

\* C11: fewer than 2 commits give {avgHours: 0, avgDays: 0}; otherwise
\* avgHours is the mean of the differences of consecutive timestamps in
\* ascending order, in hours, rounded to the nearest integer, and avgDays
\* is round(avgHours / 24 * 10) / 10, taken from the rounded avgHours
C11_TimingStats ==
    timing.op = "done"
    => LET cs == timing.commits
           stats == timing.stats
       IN  IF Len(cs) < 2
           THEN stats = [avgHours |-> Num(0), avgDays |-> Num(0)]
           ELSE \A p \in AscendingOrders(cs) :
                   /\ IsRoundedMean(stats.avgHours, GapHours(cs, p, 2), Len(cs) - 1)
                   /\ IsRoundedMean(stats.avgDays, stats.avgHours[1] * 10, HoursPerDay)

\* commits at 7 h, 0 h and 3 h: the mean gap is 3.5 h, avgHours 4 and
\* avgDays 0.2 (3.5 h alone would give 0.1)
C11_Witness ==
    /\ timing.op = "done"
    /\ timing.commits = <<[date |-> Num(7)], [date |-> Num(0)], [date |-> Num(3)]>>
    /\ timing.stats = [avgHours |-> Num(4), avgDays |-> Num(2)]

\* -------------------------------------------------------- CommitClassifier
UpperCase ==
    <<"A", "B", "C", "D", "E", "F", "G", "H", "I", "J", "K", "L", "M",
      "N", "O", "P", "Q", "R", "S", "T", "U", "V", "W", "X", "Y", "Z">>
LowerCase ==
    <<"a", "b", "c", "d", "e", "f", "g", "h", "i", "j", "k", "l", "m",
      "n", "o", "p", "q", "r", "s", "t", "u", "v", "w", "x", "y", "z">>

ToLowerChar(c) ==
    IF \E i \in 1..Len(UpperCase) : UpperCase[i] = c
    THEN LowerCase[CHOOSE i \in 1..Len(UpperCase) : UpperCase[i] = c]
    ELSE c

\* String.prototype.toLowerCase
ToLowerCase(s) == [i \in 1..Len(s) |-> ToLowerChar(s[i])]

\* \w of the regular expressions
IsWordChar(c) == c \in Letters \cup Digits \cup {"_"}

\* \b before position i of s (i = Len(s) + 1 is the end of s)
WordBoundary(s, i) ==
    LET before == i > 1 /\ IsWordChar(s[i - 1])
        after == i <= Len(s) /\ IsWordChar(s[i])
    IN  before # after


\* the type tokens and the keywords, as the expressions spell them
Word ==
    [feat |-> <<"f", "e", "a", "t">>,
     feature |-> <<"f", "e", "a", "t", "u", "r", "e">>,
     fix |-> <<"f", "i", "x">>,
     bugfix |-> <<"b", "u", "g", "f", "i", "x">>,
     refactor |-> <<"r", "e", "f", "a", "c", "t", "o", "r">>,
     docs |-> <<"d", "o", "c", "s">>,
     test |-> <<"t", "e", "s", "t">>,
     chore |-> <<"c", "h", "o", "r", "e">>,
     style |-> <<"s", "t", "y", "l", "e">>,
     perf |-> <<"p", "e", "r", "f">>,
     ci |-> <<"c", "i">>,
     build |-> <<"b", "u", "i", "l", "d">>,
     revert |-> <<"r", "e", "v", "e", "r", "t">>,
     bug |-> <<"b", "u", "g">>,
     issue |-> <<"i", "s", "s", "u", "e">>,
     error |-> <<"e", "r", "r", "o", "r">>,
     resolve |-> <<"r", "e", "s", "o", "l", "v", "e">>,
     patch |-> <<"p", "a", "t", "c", "h">>,
     add |-> <<"a", "d", "d">>,
     new |-> <<"n", "e", "w">>,
     create |-> <<"c", "r", "e", "a", "t", "e">>,
     implement |-> <<"i", "m", "p", "l", "e", "m", "e", "n", "t">>,
     introduce |-> <<"i", "n", "t", "r", "o", "d", "u", "c", "e">>,
     update |-> <<"u", "p", "d", "a", "t", "e">>,
     change |-> <<"c", "h", "a", "n", "g", "e">>,
     modify |-> <<"m", "o", "d", "i", "f", "y">>,
     improve |-> <<"i", "m", "p", "r", "o", "v", "e">>,
     enhance |-> <<"e", "n", "h", "a", "n", "c", "e">>,
     refine |-> <<"r", "e", "f", "i", "n", "e">>,
     spec |-> <<"s", "p", "e", "c">>,
     testing |-> <<"t", "e", "s", "t", "i", "n", "g">>,
     doc |-> <<"d", "o", "c">>,
     readme |-> <<"r", "e", "a", "d", "m", "e">>,
     comment |-> <<"c", "o", "m", "m", "e", "n", "t">>,
     documentation |-> <<"d", "o", "c", "u", "m", "e", "n", "t", "a", "t", "i", "o", "n">>,
     format |-> <<"f", "o", "r", "m", "a", "t">>,
     indent |-> <<"i", "n", "d", "e", "n", "t">>,
     whitespace |-> <<"w", "h", "i", "t", "e", "s", "p", "a", "c", "e">>,
     prettier |-> <<"p", "r", "e", "t", "t", "i", "e", "r">>,
     eslint |-> <<"e", "s", "l", "i", "n", "t">>,
     merge |-> <<"m", "e", "r", "g", "e">>,
     rebase |-> <<"r", "e", "b", "a", "s", "e">>,
     release |-> <<"r", "e", "l", "e", "a", "s", "e">>,
     version |-> <<"v", "e", "r", "s", "i", "o", "n">>,
     bump |-> <<"b", "u", "m", "p">>]

\* the Conventional Commits patterns, in the order of Object.entries:
\* /^(token|token)(\(.+\))?:/i
patterns ==
    <<[type |-> "feature", tokens |-> <<Word.feat, Word.feature>>],
      [type |-> "bugfix", tokens |-> <<Word.fix, Word.bugfix>>],
      [type |-> "refactor", tokens |-> <<Word.refactor>>],
      [type |-> "docs", tokens |-> <<Word.docs>>],
      [type |-> "test", tokens |-> <<Word.test>>],
      [type |-> "chore", tokens |-> <<Word.chore>>],
      [type |-> "style", tokens |-> <<Word.style>>],
      [type |-> "perf", tokens |-> <<Word.perf>>],
      [type |-> "ci", tokens |-> <<Word.ci>>],
      [type |-> "build", tokens |-> <<Word.build>>],
      [type |-> "revert", tokens |-> <<Word.revert>>]>>

\* (\(.+\))?: at position i of s: a colon, or a parenthesis, one character
\* or more (none a line terminator), a closing parenthesis and a colon
ScopeAndColonAt(s, i) ==
    /\ i <= Len(s)
    /\ \/ s[i] = ":"
       \/ /\ s[i] = "("
          /\ \E j \in (i + 2)..(Len(s) - 1) :
                /\ s[j] = ")"
                /\ s[j + 1] = ":"
                /\ \A k \in (i + 1)..(j - 1) : s[k] # NL

\* pattern.test(message), case-insensitive
PatternTest(pattern, message) ==
    LET m == ToLowerCase(message)
    IN  \E t \in 1..Len(pattern.tokens) :
           /\ StartsWith(m, pattern.tokens[t])
           /\ ScopeAndColonAt(m, Len(pattern.tokens[t]) + 1)

\* the heuristic tests, in the order of the if statements:
\* /\b(word|word)\b/i
KeywordGroups ==
    <<[type |-> "bugfix",
       words |-> <<Word.fix, Word.bug, Word.issue, Word.error, Word.resolve, Word.patch>>],
      [type |-> "feature",
       words |-> <<Word.add, Word.new, Word.create, Word.implement, Word.introduce>>],
      [type |-> "refactor",
       words |-> <<Word.update, Word.change, Word.modify, Word.improve, Word.enhance, Word.refine>>],
      [type |-> "test", words |-> <<Word.test, Word.spec, Word.testing>>],
      [type |-> "docs", words |-> <<Word.doc, Word.readme, Word.comment, Word.documentation>>],
      [type |-> "style",
       words |-> <<Word.format, Word.indent, Word.whitespace, Word.prettier, Word.eslint>>],
      [type |-> "merge", words |-> <<Word.merge, Word.rebase>>],
      [type |-> "release", words |-> <<Word.release, Word.version, Word.bump>>]>>

KeywordTest(group, lowerMessage) ==
    \E w \in 1..Len(group.words) :
       \E i \in 1..(Len(lowerMessage) - Len(group.words[w]) + 1) :
          /\ SubSeq(lowerMessage, i, i + Len(group.words[w]) - 1) = group.words[w]
          /\ WordBoundary(lowerMessage, i)
          /\ WordBoundary(lowerMessage, i + Len(group.words[w]))

\* the type of the first entry of tests whose test accepts, else fallback
FirstOf(hits, tests, fallback) ==
    IF hits = {} THEN fallback
    ELSE tests[CHOOSE i \in hits : \A j \in hits : i <= j].type

\* the last accepting group decides
KeywordType_LastGroupWins(lowerMessage) ==
    LET hits == {i \in 1..Len(KeywordGroups) :
                    KeywordTest(KeywordGroups[i], lowerMessage)}
    IN  IF hits = {} THEN "other"
        ELSE KeywordGroups[CHOOSE i \in hits : \A j \in hits : i >= j].type

KeywordType(lowerMessage) ==
    FirstOf({i \in 1..Len(KeywordGroups) :
                KeywordTest(KeywordGroups[i], lowerMessage)},
            KeywordGroups, "other")

\* the heuristics tried before the patterns
classifyCommit_KeywordsFirst(message) ==
    IF message = Undefined \/ message = <<>> THEN "other"
    ELSE LET byKeyword == KeywordType(ToLowerCase(message))
         IN  IF byKeyword # "other" THEN byKeyword
             ELSE FirstOf({i \in 1..Len(patterns) : PatternTest(patterns[i], message)},
                          patterns, "other")

classifyCommit(message) ==
    IF message = Undefined \/ message = <<>> THEN "other"
    ELSE LET lowerMessage == ToLowerCase(message)
         IN  FirstOf({i \in 1..Len(patterns) : PatternTest(patterns[i], message)},
                     patterns, KeywordType(lowerMessage))

\* ------------------------------------------------------- classifier runs
MaxWords == 2


\* a type token as it is spelled at the start of a message
TokenSpellings ==
    {Word.feat, Word.feature, Word.fix, Word.bugfix, Word.refactor, Word.docs, Word.test, Word.chore,
     Word.style, Word.perf, Word.ci, Word.build, Word.revert, <<"F", "E", "A", "T">>, <<"F", "i", "x">>}

\* a scope, and a scope that is itself a keyword
Scopes == {<<"(", "a", "p", "i", ")">>, <<"(", "f", "i", "x", ")">>}

\* the tokens that are also written with a scope
ScopedTokens == {Word.feat, Word.fix, Word.docs, <<"F", "E", "A", "T">>}

PrefixHeads ==
    {[kind |-> "prefix", token |-> t, scope |-> <<>>,
      text |-> t \o <<":">>] : t \in TokenSpellings}
    \cup {[kind |-> "prefix", token |-> t, scope |-> s,
           text |-> t \o s \o <<":">>] : t \in ScopedTokens, s \in Scopes}

\* starts of messages that the patterns do not accept
PlainTexts ==
    {<<>>, <<"f", "e", "a", "t", "(", ")", ":">>, <<"f", "e", "a", "t", "s", ":">>, <<" ", "f", "e", "a", "t", ":">>, <<"f", "e", "a", "t", " ", ":">>, <<"d", "o", "c", ":">>, <<"p", "r", "e", "f", "i", "x", ":">>}

PlainHeads ==
    {[kind |-> "plain", token |-> <<>>, scope |-> <<>>, text |-> x] :
        x \in PlainTexts}

\* the words of the rest of the message
MessageWords ==
    {Word.fix, Word.bug, Word.add, Word.update, Word.test, Word.doc, Word.format, Word.merge,
     Word.release, <<"F", "i", "x">>,
     <<"b", "u", "g", "_", "f", "i", "x">>,
     <<"f", "i", "x", "-", "u", "p">>}

StartMessage ==
    /\ classified.op = "none"
    /\ ~classified.started
    /\ \E head \in PrefixHeads \cup PlainHeads :
          classified' = [classified EXCEPT !.started = TRUE,
                                           !.message = head.text,
                                           !.head = head]
    /\ UNCHANGED <<parserVars, attribution, aggVars,
                   timing, hotspots, risk, quality, scan, focus>>

AppendWord ==
    /\ classified.op = "none"
    /\ classified.started
    /\ Len(classified.words) < MaxWords
    /\ \E word \in MessageWords :
          classified' =
              [classified EXCEPT
                  !.message = IF @ = <<>> THEN word ELSE @ \o <<SP>> \o word,
                  !.words = Append(@, word)]
    /\ UNCHANGED <<parserVars, attribution, aggVars,
                   timing, hotspots, risk, quality, scan, focus>>

Classify ==
    /\ classified.op = "none"
    /\ classified.started
    /\ classified' = [op |-> "done", started |-> TRUE,
                      message |-> classified.message,
                      head |-> classified.head, words |-> classified.words,
                      type |-> classifyCommit(classified.message)]
    /\ UNCHANGED <<parserVars, attribution, aggVars,
                   timing, hotspots, risk, quality, scan, focus>>

\* a commit without a message
ClassifyMissing ==
    /\ classified.op = "none"
    /\ ~classified.started
    /\ classified' = [op |-> "done", started |-> FALSE,
                      message |-> Undefined,
                      head |-> classified.head, words |-> classified.words,
                      type |-> classifyCommit(Undefined)]
    /\ UNCHANGED <<parserVars, attribution, aggVars,
                   timing, hotspots, risk, quality, scan, focus>>

NextClassify == StartMessage \/ AppendWord \/ Classify \/ ClassifyMissing

SpecClassify == Init /\ [][NextClassify]_vars

\* ------------------------------------------------- classifier properties
\* the category each type token stands for
PrefixCategory(token) ==
    CASE token \in {Word.feat, Word.feature} -> "feature"
      [] token \in {Word.fix, Word.bugfix} -> "bugfix"
      [] token = Word.refactor -> "refactor"
      [] token = Word.docs -> "docs"
      [] token = Word.test -> "test"
      [] token = Word.chore -> "chore"
      [] token = Word.style -> "style"
      [] token = Word.perf -> "perf"
      [] token = Word.ci -> "ci"
      [] token = Word.build -> "build"
      [] token = Word.revert -> "revert"

\* C12: a message that begins (in any letter case) with a type token, an
\* optional parenthesised scope and a colon gets the category of that
\* token, whatever keywords the rest of the message holds
C12_PrefixWins ==
    (classified.op = "done" /\ classified.head.kind = "prefix")
    => classified.type = PrefixCategory(ToLowerCase(classified.head.token))

\* `feat: fix bug` is a feature
C12_Witness ==
    /\ classified.op = "done"
    /\ classified.message = <<"f", "e", "a", "t", ":", " ", "f", "i", "x", " ", "b", "u", "g">>
    /\ classified.type = "feature"

Categories ==
    {"feature", "bugfix", "refactor", "docs", "test", "chore", "style",
     "perf", "ci", "build", "revert", "merge", "release", "other"}

\* the words of s: its maximal runs of letters, digits and underscores
WordRuns(s) ==
    {SubSeq(s, p[1], p[2]) :
        p \in {q \in (1..Len(s)) \X (1..Len(s)) :
                  /\ q[1] <= q[2]
                  /\ \A k \in q[1]..q[2] : IsWordChar(s[k])
                  /\ q[1] = 1 \/ ~IsWordChar(s[q[1] - 1])
                  /\ q[2] = Len(s) \/ ~IsWordChar(s[q[2] + 1])}}

\* the order in which the keyword groups are tried
GroupOrder ==
    <<"bugfix", "feature", "refactor", "test", "docs", "style", "merge",
      "release">>

KeywordsOf(type) ==
    LET g == CHOOSE i \in 1..Len(KeywordGroups) : KeywordGroups[i].type = type
    IN  {KeywordGroups[g].words[k] : k \in 1..Len(KeywordGroups[g].words)}

ExpectedByKeywords(message) ==
    LET runs == WordRuns(ToLowerCase(message))
        hits == {i \in 1..Len(GroupOrder) : KeywordsOf(GroupOrder[i]) \cap runs # {}}
    IN  IF hits = {} THEN "other"
        ELSE GroupOrder[CHOOSE i \in hits : \A j \in hits : i <= j]

\* C13: without a recognised prefix the result is the category of the first
\* of the groups bugfix, feature, refactor, test, docs, style, merge,
\* release that has a keyword among the words of the message, and `other`
\* when none has; an empty or missing message is `other`; the result is
\* always one of the fourteen categories
C13_KeywordOrder ==
    classified.op = "done"
    => /\ classified.type \in Categories
       /\ Cardinality(Categories) = 14
       /\ classified.message \in {<<>>, Undefined} => classified.type = "other"
       /\ (classified.head.kind # "prefix" /\ classified.message # Undefined)
          => classified.type = ExpectedByKeywords(classified.message)

\* `add fix` holds a feature keyword and then a bugfix keyword: bugfix
C13_Witness ==
    /\ classified.op = "done"
    /\ classified.head.kind = "plain"
    /\ classified.words = <<Word.add, Word.fix>>
    /\ classified.type = "bugfix"

\* ---------------------------------------------------------- HotspotDetector
\* Math.log(x) for x in 1..41, in thousandths
LogTable ==
    <<0, 693, 1099, 1386, 1609, 1792, 1946, 2079, 2197, 2303,
      2398, 2485, 2565, 2639, 2708, 2773, 2833, 2890, 2944, 2996,
      3045, 3091, 3135, 3178, 3219, 3258, 3296, 3332, 3367, 3401,
      3434, 3466, 3497, 3526, 3555, 3584, 3611, 3638, 3664, 3689, 3714>>

\* Math.sqrt(n) for n in 0..5, in thousandths (entry n + 1)
SqrtTable == <<0, 1000, 1414, 1732, 2000, 2236>>

Thousand == 1000

MathLog(x) == LogTable[x]
MathSqrt(n) == SqrtTable[n + 1]

\* c.email || c.author
AuthorKey(c) == IF c.email = <<>> THEN c.author ELSE c.email

\* calculateRiskLevel(changes, churn, authorCount)
calculateRiskLevel_AllTiersCount(changes, churn, authorCount) ==
    LET riskScore ==
            (IF changes > 20 THEN 30 ELSE 0) + (IF changes > 10 THEN 20 ELSE 0)
            + (IF changes > 5 THEN 10 ELSE 0)
            + (IF churn > 1000 THEN 30 ELSE 0) + (IF churn > 500 THEN 20 ELSE 0)
            + (IF churn > 200 THEN 10 ELSE 0)
            + (IF authorCount > 5 THEN 20 ELSE 0)
            + (IF authorCount > 3 THEN 10 ELSE 0)
            + (IF authorCount = 1 THEN 15 ELSE 0)
    IN  IF riskScore > 60 THEN [level |-> "High", color |-> "#dc2626"]
        ELSE IF riskScore > 30 THEN [level |-> "Medium", color |-> "#f97316"]
        ELSE [level |-> "Low", color |-> "#22c55e"]

\* 60 points are High already
calculateRiskLevel_HighFrom60(changes, churn, authorCount) ==
    LET byChanges == IF changes > 20 THEN 30
                     ELSE IF changes > 10 THEN 20
                     ELSE IF changes > 5 THEN 10
                     ELSE 0
        byChurn == IF churn > 1000 THEN 30
                   ELSE IF churn > 500 THEN 20
                   ELSE IF churn > 200 THEN 10
                   ELSE 0
        byAuthors == IF authorCount > 5 THEN 20
                     ELSE IF authorCount > 3 THEN 10
                     ELSE IF authorCount = 1 THEN 15
                     ELSE 0
        riskScore == byChanges + byChurn + byAuthors
    IN  IF riskScore >= 60 THEN [level |-> "High", color |-> "#dc2626"]
        ELSE IF riskScore > 30 THEN [level |-> "Medium", color |-> "#f97316"]
        ELSE [level |-> "Low", color |-> "#22c55e"]

calculateRiskLevel(changes, churn, authorCount) ==
    LET byChanges == IF changes > 20 THEN 30
                     ELSE IF changes > 10 THEN 20
                     ELSE IF changes > 5 THEN 10
                     ELSE 0
        byChurn == IF churn > 1000 THEN 30
                   ELSE IF churn > 500 THEN 20
                   ELSE IF churn > 200 THEN 10
                   ELSE 0
        byAuthors == IF authorCount > 5 THEN 20
                     ELSE IF authorCount > 3 THEN 10
                     ELSE IF authorCount = 1 THEN 15
                     ELSE 0
        riskScore == byChanges + byChurn + byAuthors
    IN  IF riskScore > 60 THEN [level |-> "High", color |-> "#dc2626"]
        ELSE IF riskScore > 30 THEN [level |-> "Medium", color |-> "#f97316"]
        ELSE [level |-> "Low", color |-> "#22c55e"]

\* the body of c.files.forEach for the file f of the commit c; fileStats is
\* held as the sequence of its entries in insertion order
TouchFile(fileStats, c, f) ==
    LET known == \E i \in 1..Len(fileStats) : fileStats[i].filename = f.filename
        withFile == IF known THEN fileStats
                    ELSE Append(fileStats,
                                [filename |-> f.filename,
                                 changes |-> 0,
                                 additions |-> 0,
                                 deletions |-> 0,
                                 authors |-> <<>>,
                                 lastChanged |-> c.date])
        at == CHOOSE i \in 1..Len(withFile) : withFile[i].filename = f.filename
    IN  [withFile EXCEPT
            ![at].changes = @ + 1,
            ![at].additions = @ + f.additions,
            ![at].deletions = @ + f.deletions,
            ![at].authors = SetAdd(@, AuthorKey(c)),
            ![at].lastChanged = IF c.date[1] > @[1] THEN c.date ELSE @]

RECURSIVE TouchFiles(_, _, _)
TouchFiles(fileStats, c, files) ==
    IF files = <<>> THEN fileStats
    ELSE TouchFiles(TouchFile(fileStats, c, Head(files)), c, Tail(files))

\* commits.forEach: a commit without files is skipped; c.files is held as
\* Null when missing and as <<the list>> otherwise
RECURSIVE CollectFileStats(_, _)
CollectFileStats(cs, fileStats) ==
    IF cs = <<>> THEN fileStats
    ELSE CollectFileStats(Tail(cs),
                          IF Head(cs).files = Null THEN fileStats
                          ELSE TouchFiles(fileStats, Head(cs), Head(cs).files[1]))

\* the map() that turns an entry of fileStats into a hotspot
HotspotOf(stats) ==
    LET authorCount == Len(stats.authors)
        churn == stats.additions + stats.deletions
        hotspotScore == stats.changes * MathLog(churn + 1) * MathSqrt(authorCount)
    IN  [filename |-> stats.filename,
         changes |-> stats.changes,
         additions |-> stats.additions,
         deletions |-> stats.deletions,
         churn |-> churn,
         authorCount |-> authorCount,
         authors |-> stats.authors,
         lastChanged |-> stats.lastChanged,
         hotspotScore |-> MathRoundDiv(hotspotScore, Thousand * Thousand)[1],
         riskLevel |-> calculateRiskLevel(stats.changes, churn, authorCount)]

\* Array.prototype.sort (stable) with (a, b) => b.hotspotScore - a.hotspotScore
RECURSIVE InsertByScore(_, _)
InsertByScore(sorted, x) ==
    IF sorted = <<>> THEN <<x>>
    ELSE IF x.hotspotScore - Head(sorted).hotspotScore <= 0
    THEN <<Head(sorted)>> \o InsertByScore(Tail(sorted), x)
    ELSE <<x>> \o sorted

RECURSIVE SortByScoreDesc(_)
SortByScoreDesc(hs) ==
    IF hs = <<>> THEN <<>>
    ELSE InsertByScore(SortByScoreDesc(SubSeq(hs, 1, Len(hs) - 1)), hs[Len(hs)])

\* Array.prototype.slice(0, limit) for limit >= 0
Slice(xs, limit) == SubSeq(xs, 1, Min({limit, Len(xs)}))

\* the hotspots before the sort, in the order of Object.entries
AllHotspots(cs) ==
    LET fileStats == CollectFileStats(cs, <<>>)
    IN  [i \in 1..Len(fileStats) |-> HotspotOf(fileStats[i])]

\* the sort left out
findFileHotspots_Unsorted(cs, limit) ==
    IF cs = <<>> THEN <<>> ELSE Slice(AllHotspots(cs), limit)

findFileHotspots(cs, limit) ==
    IF cs = <<>> THEN <<>>
    ELSE Slice(SortByScoreDesc(AllHotspots(cs)), limit)

\* ---------------------------------------------------------- hotspot runs
MaxHotCommits == 3

\* limit = 20 when the argument is left out
DefaultLimit == 20

HotLimits == {0, 1, 2, DefaultLimit}

S_fileA == <<"a", ".", "j", "s">>
S_fileB == <<"b", ".", "j", "s">>
S_fileC == <<"c", ".", "j", "s">>

\* who committed, and when (hours since the epoch)
HotAuthors ==
    {[author |-> S_Alice, email |-> S_aliceMail, date |-> Num(10)],
     [author |-> S_Alice, email |-> S_aliceMail, date |-> Num(37)],
     [author |-> S_Bob, email |-> S_bobMail, date |-> Num(37)]}

\* the files of a commit; Null for a commit without a files list
HotFiles ==
    {<<<<[filename |-> S_fileA, additions |-> 1, deletions |-> 0]>>>>,
     <<<<[filename |-> S_fileB, additions |-> 2, deletions |-> 1]>>>>,
     <<<<[filename |-> S_fileA, additions |-> 0, deletions |-> 0],
         [filename |-> S_fileC, additions |-> 3, deletions |-> 3]>>>>,
     Null}

AddHotCommit ==
    /\ hotspots.op = "none"
    /\ Len(hotspots.commits) < MaxHotCommits
    /\ \E who \in HotAuthors, files \in HotFiles :
          hotspots' = [hotspots EXCEPT
                          !.commits = Append(@, [author |-> who.author,
                                                 email |-> who.email,
                                                 date |-> who.date,
                                                 files |-> files])]
    /\ UNCHANGED <<parserVars, attribution, aggVars,
                   timing, classified, risk, quality, scan, focus>>

Detect ==
    /\ hotspots.op = "none"
    /\ \E limit \in HotLimits :
          hotspots' = [op |-> "done", commits |-> hotspots.commits,
                       limit |-> limit,
                       result |-> findFileHotspots(hotspots.commits, limit)]
    /\ UNCHANGED <<parserVars, attribution, aggVars,
                   timing, classified, risk, quality, scan, focus>>

NextHotspots == AddHotCommit \/ Detect

SpecHotspots == Init /\ [][NextHotspots]_vars

\* ----------------------------------------------------- hotspot properties
\* the filenames of the files the commits touch
TouchedFiles(cs) ==
    UNION {{cs[i].files[1][k].filename : k \in 1..Len(cs[i].files[1])} :
              i \in {j \in 1..Len(cs) : cs[j].files # Null}}

\* C14: the result is sorted by hotspotScore, highest first, and cut to
\* limit: it holds min(limit, number of distinct filenames) entries, one
\* per filename, no filename left out scores higher than one kept, and
\* no commits give an empty result
C14_SortedAndTruncated ==
    hotspots.op = "done"
    => LET result == hotspots.result
           all == AllHotspots(hotspots.commits)
           kept == {result[i].filename : i \in 1..Len(result)}
       IN  /\ \A i \in 1..(Len(result) - 1) :
                 result[i].hotspotScore >= result[i + 1].hotspotScore
           /\ Len(result) = Min({hotspots.limit,
                                 Cardinality(TouchedFiles(hotspots.commits))})
           /\ Cardinality(kept) = Len(result)
           /\ kept \subseteq TouchedFiles(hotspots.commits)
           /\ \A i \in 1..Len(all) :
                 all[i].filename \notin kept
                 => \A k \in 1..Len(result) :
                       all[i].hotspotScore <= result[k].hotspotScore
           /\ hotspots.commits = <<>> => result = <<>>

\* three files of rising score, cut to the two highest
C14_Witness ==
    /\ hotspots.op = "done"
    /\ hotspots.limit = 2
    /\ Cardinality(TouchedFiles(hotspots.commits)) = 3
    /\ Len(hotspots.result) = 2
    /\ hotspots.result[1].filename = S_fileC
    /\ hotspots.result[1].hotspotScore > hotspots.result[2].hotspotScore
    /\ hotspots.result[2].hotspotScore > 0

\* ---------------------------------------------- calculateRiskLevel on its own
\* values on both sides of every threshold
RiskChanges == {0, 5, 6, 10, 11, 20, 21, 25}
RiskChurns == {0, 200, 201, 500, 501, 1000, 1001, 1200}
RiskAuthorCounts == 0..6

AssessRisk ==
    /\ risk.op = "none"
    /\ \E changes \in RiskChanges, churn \in RiskChurns,
          authorCount \in RiskAuthorCounts :
          risk' = [op |-> "done", changes |-> changes, churn |-> churn,
                   authorCount |-> authorCount,
                   riskLevel |-> calculateRiskLevel(changes, churn, authorCount)]
    /\ UNCHANGED <<parserVars, attribution, aggVars,
                   timing, classified, hotspots, quality, scan, focus>>

NextRisk == AssessRisk

SpecRisk == Init /\ [][NextRisk]_vars

\* the points of one dimension: the highest tier that v exceeds counts
TierPoints(v, tiers) ==
    LET passed == {i \in 1..Len(tiers) : v > tiers[i].above}
    IN  IF passed = {} THEN 0
        ELSE tiers[CHOOSE i \in passed : \A j \in passed : i <= j].points

RiskPoints(changes, churn, authorCount) ==
    TierPoints(changes, <<[above |-> 20, points |-> 30],
                          [above |-> 10, points |-> 20],
                          [above |-> 5, points |-> 10]>>)
    + TierPoints(churn, <<[above |-> 1000, points |-> 30],
                          [above |-> 500, points |-> 20],
                          [above |-> 200, points |-> 10]>>)
    + (IF authorCount = 1 THEN 15
       ELSE TierPoints(authorCount, <<[above |-> 5, points |-> 20],
                                      [above |-> 3, points |-> 10]>>))

\* C15: the level follows the point table: 30/20/10 for changes above
\* 20/10/5, 30/20/10 for churn above 1000/500/200, 20/10 for more than
\* 5/3 authors and 15 for a single author, the highest tier of each
\* dimension only; High above 60 points, Medium above 30, else Low
C15_RiskTable ==
    risk.op = "done"
    => LET points == RiskPoints(risk.changes, risk.churn, risk.authorCount)
       IN  risk.riskLevel.level = IF points > 60 THEN "High"
                                  ELSE IF points > 30 THEN "Medium"
                                  ELSE "Low"

\* 25 changes, churn 1200, one author: High
C15_Witness ==
    /\ risk.op = "done"
    /\ risk.changes = 25
    /\ risk.churn = 1200
    /\ risk.authorCount = 1
    /\ risk.riskLevel.level = "High"

\* ------------------------------------------------------------ QualityScorer
\* Array.prototype.sort with (a, b) => b - a
RECURSIVE InsertNumDesc(_, _)
InsertNumDesc(sorted, x) ==
    IF sorted = <<>> THEN <<x>>
    ELSE IF x - Head(sorted) <= 0
    THEN <<Head(sorted)>> \o InsertNumDesc(Tail(sorted), x)
    ELSE <<x>> \o sorted

RECURSIVE SortNumDesc(_)
SortNumDesc(xs) ==
    IF xs = <<>> THEN <<>>
    ELSE InsertNumDesc(SortNumDesc(SubSeq(xs, 1, Len(xs) - 1)), xs[Len(xs)])

\* Array.prototype.sort with (a, b) => a - b
RECURSIVE InsertNumAsc(_, _)
InsertNumAsc(sorted, x) ==
    IF sorted = <<>> THEN <<x>>
    ELSE IF Head(sorted) - x <= 0
    THEN <<Head(sorted)>> \o InsertNumAsc(Tail(sorted), x)
    ELSE <<x>> \o sorted

RECURSIVE SortNumAsc(_)
SortNumAsc(xs) ==
    IF xs = <<>> THEN <<>>
    ELSE InsertNumAsc(SortNumAsc(SubSeq(xs, 1, Len(xs) - 1)), xs[Len(xs)])

\* obj[key] = (obj[key] || 0) + amount; the object is held as the sequence
\* of its entries in insertion order
AddTo(obj, key, amount) ==
    IF \E i \in 1..Len(obj) : obj[i].key = key
    THEN LET at == CHOOSE i \in 1..Len(obj) : obj[i].key = key
         IN  [obj EXCEPT ![at].value = @ + amount]
    ELSE Append(obj, [key |-> key, value |-> amount])

\* Object.values
ObjectValues(obj) == [i \in 1..Len(obj) |-> obj[i].value]

RECURSIVE SumNums(_)
SumNums(xs) == IF xs = <<>> THEN 0 ELSE Head(xs) + SumNums(Tail(xs))

\* contributors[0]?.totalCommits !== undefined
IsUserList(contributors) == "totalCommits" \in DOMAIN contributors[1]

RECURSIVE authorCommits(_, _)
authorCommits(contributors, counts) ==
    IF contributors = <<>> THEN counts
    ELSE authorCommits(Tail(contributors),
                       AddTo(counts, AuthorKey(Head(contributors)), 1))

\* the for loop of calculateBusFactor from entry i on; the comparison with
\* totalCommits * 0.8 is made on sum * 5 and totalCommits * 4
RECURSIVE BusLoop(_, _, _, _, _)
BusLoop(commitCounts, i, sum, count, totalCommits) ==
    IF i > Len(commitCounts) THEN count
    ELSE IF (sum + commitCounts[i]) * 5 >= totalCommits * 4 THEN count + 1
    ELSE BusLoop(commitCounts, i + 1, sum + commitCounts[i], count + 1,
                 totalCommits)

CommitCounts(contributors) ==
    IF IsUserList(contributors)
    THEN SortNumDesc([i \in 1..Len(contributors) |-> contributors[i].totalCommits])
    ELSE SortNumDesc(ObjectValues(authorCommits(contributors, <<>>)))

\* the contributor that takes the sum to the threshold exactly is not
\* counted
calculateBusFactor_ExactHitNotCounted(contributors) ==
    IF contributors = <<>> THEN 0
    ELSE LET commitCounts == CommitCounts(contributors)
             totalCommits == SumNums(commitCounts)
             count == BusLoop(commitCounts, 1, 0, 0, totalCommits)
         IN  IF /\ count > 1
                /\ SumNums(SubSeq(commitCounts, 1, count)) * 5 = totalCommits * 4
             THEN count - 1
             ELSE count

\* the counts are taken in the order of the input
calculateBusFactor_Unsorted(contributors) ==
    IF contributors = <<>> THEN 0
    ELSE LET commitCounts ==
                 IF IsUserList(contributors)
                 THEN [i \in 1..Len(contributors) |-> contributors[i].totalCommits]
                 ELSE ObjectValues(authorCommits(contributors, <<>>))
         IN  BusLoop(commitCounts, 1, 0, 0, SumNums(commitCounts))

calculateBusFactor(contributors) ==
    IF contributors = <<>> THEN 0
    ELSE LET commitCounts == CommitCounts(contributors)
             totalCommits == SumNums(commitCounts)
         IN  BusLoop(commitCounts, 1, 0, 0, totalCommits)

RECURSIVE contributions(_, _)
contributions(cs, sums) ==
    IF cs = <<>> THEN sums
    ELSE contributions(Tail(cs), AddTo(sums, AuthorKey(Head(cs)), Head(cs).additions))

\* values.forEach((val, i) => numerator += (n - i) * val), i from 0
RECURSIVE GiniNumerator(_, _)
GiniNumerator(values, i) ==
    IF i >= Len(values) THEN 0
    ELSE (Len(values) - i) * values[i + 1] + GiniNumerator(values, i + 1)

Hundred == 100

\* Math.round(x / y) for y > 0 and any x: the nearest integer, halves
\* towards +Infinity
MathRoundDivSigned(x, y) == (2 * x + y) \div (2 * y)

\* the result is held in hundredths (Math.round(gini * 100) / 100)
calculateGiniCoefficient(cs) ==
    IF cs = <<>> THEN 0
    ELSE LET values == SortNumAsc(ObjectValues(contributions(cs, <<>>)))
             n == Len(values)
             sum == SumNums(values)
         IN  IF n = 0 THEN 0
             ELSE IF sum = 0 THEN 0
             ELSE MathRoundDivSigned(
                      2 * Hundred * GiniNumerator(values, 0) - Hundred * (n + 1) * sum,
                      n * sum)

Max(S) == CHOOSE x \in S : \A y \in S : x >= y

\* the penalties are added to the score, which is not clamped
calculateHealthScore_AddsUnclamped(metrics) ==
    100
    + (IF metrics.busFactor = 1 THEN 20 ELSE IF metrics.busFactor = 2 THEN 10 ELSE 0)
    + (IF metrics.ownershipConcentration > 70 THEN 15
       ELSE IF metrics.ownershipConcentration > 50 THEN 8 ELSE 0)

\* one chain of else-ifs: only the first rule that applies deducts
calculateHealthScore_FirstRuleOnly(metrics) ==
    IF metrics.busFactor = 1 THEN 80
    ELSE IF metrics.busFactor = 2 THEN 90
    ELSE IF metrics.ownershipConcentration > 70 THEN 85
    ELSE IF metrics.ownershipConcentration > 50 THEN 92
    ELSE IF metrics.avgCommitSize > 500 THEN 90
    ELSE IF metrics.avgCommitSize > 200 THEN 95
    ELSE IF metrics.commentRatio < 50 THEN 90
    ELSE IF metrics.commentRatio < 100 THEN 95
    ELSE IF metrics.codeStability > 300 \/ metrics.codeStability < 50 THEN 90
    ELSE IF metrics.churnRate > 1000 THEN 90
    ELSE IF metrics.churnRate > 500 THEN 95
    ELSE 100

\* the two ownership tiers are separate ifs: above 70 both deduct
calculateHealthScore_BothOwnershipTiers(metrics) ==
    LET s1 == 100 - (IF metrics.busFactor = 1 THEN 20
                     ELSE IF metrics.busFactor = 2 THEN 10 ELSE 0)
        s2 == s1 - (IF metrics.ownershipConcentration > 70 THEN 15 ELSE 0)
                 - (IF metrics.ownershipConcentration > 50 THEN 8 ELSE 0)
        s3 == s2 - (IF metrics.avgCommitSize > 500 THEN 10
                    ELSE IF metrics.avgCommitSize > 200 THEN 5 ELSE 0)
        s4 == s3 - (IF metrics.commentRatio < 50 THEN 10
                    ELSE IF metrics.commentRatio < 100 THEN 5 ELSE 0)
        s5 == s4 - (IF metrics.codeStability > 300 \/ metrics.codeStability < 50
                    THEN 10 ELSE 0)
        score == s5 - (IF metrics.churnRate > 1000 THEN 10
                       ELSE IF metrics.churnRate > 500 THEN 5 ELSE 0)
    IN  Max({0, Min({100, score})})

\* ownershipConcentration and codeStability are held in hundredths,
\* commentRatio in tenths
calculateHealthScore(metrics) ==
    LET s0 == 100
        s1 == IF metrics.busFactor = 1 THEN s0 - 20
              ELSE IF metrics.busFactor = 2 THEN s0 - 10
              ELSE s0
        s2 == IF metrics.ownershipConcentration > 70 THEN s1 - 15
              ELSE IF metrics.ownershipConcentration > 50 THEN s1 - 8
              ELSE s1
        s3 == IF metrics.avgCommitSize > 500 THEN s2 - 10
              ELSE IF metrics.avgCommitSize > 200 THEN s2 - 5
              ELSE s2
        s4 == IF metrics.commentRatio < 50 THEN s3 - 10
              ELSE IF metrics.commentRatio < 100 THEN s3 - 5
              ELSE s3
        s5 == IF metrics.codeStability > 300 \/ metrics.codeStability < 50
              THEN s4 - 10
              ELSE s4
        score == IF metrics.churnRate > 1000 THEN s5 - 10
                 ELSE IF metrics.churnRate > 500 THEN s5 - 5
                 ELSE s5
    IN  Max({0, Min({100, score})})

\* Math.round(totalChurn / commits.length)
calculateChurnRate(cs) ==
    IF cs = <<>> THEN Num(0)
    ELSE MathRoundDiv(Reduce(cs, "additions") + Reduce(cs, "deletions"), Len(cs))

calculateAvgCommitSize(cs) ==
    IF cs = <<>> THEN Num(0)
    ELSE MathRoundDiv(Reduce(cs, "additions"), Len(cs))

\* the ratio is taken whatever the deletions are
calculateCodeStability_NoGuard(cs) ==
    IF cs = <<>> THEN Num(Hundred)
    ELSE MathRoundDiv(Reduce(cs, "additions") * Hundred, Reduce(cs, "deletions"))

\* the result is held in hundredths (Math.round(x * 100) / 100)
calculateCodeStability(cs) ==
    IF cs = <<>> THEN Num(Hundred)
    ELSE LET totalAdditions == Reduce(cs, "additions")
             totalDeletions == Reduce(cs, "deletions")
         IN  IF totalDeletions = 0
             THEN (IF totalAdditions > 0 THEN Num(2 * Hundred) ELSE Num(Hundred))
             ELSE MathRoundDiv(totalAdditions * Hundred, totalDeletions)

\* stats is Null when missing, and stats.source is NotANumber when missing;
\* the result is held in tenths (Math.round(x * 100 * 10) / 10)
calculateCommentRatio(stats) ==
    IF stats = Null THEN Num(0)
    ELSE IF stats[1].source = NotANumber \/ stats[1].source = Num(0) THEN Num(0)
    ELSE MathRoundDiv(stats[1].comment * Thousand, stats[1].source[1])

\* a metric as the comparisons of calculateHealthScore see it: a comparison
\* with NaN is false, as it is with the value given as neutral
Compared(metric, neutral) == IF metric = NotANumber THEN neutral ELSE metric[1]

\* loc is Null when missing, and so are loc.stats and users
calculateCodeQualityMetrics(cs, loc, users) ==
    LET churnRate == calculateChurnRate(cs)
        busFactor == calculateBusFactor(IF users = Null THEN cs ELSE users[1])
        ownershipConcentration == calculateGiniCoefficient(cs)
        avgCommitSize == calculateAvgCommitSize(cs)
        codeStability == calculateCodeStability(cs)
        commentRatio == IF loc = Null THEN Num(0)
                        ELSE IF loc[1].stats = Null THEN Num(0)
                        ELSE calculateCommentRatio(loc[1].stats)
    IN  [churnRate |-> churnRate,
         busFactor |-> busFactor,
         ownershipConcentration |-> ownershipConcentration,
         avgCommitSize |-> avgCommitSize,
         codeStability |-> codeStability,
         commentRatio |-> commentRatio,
         healthScore |->
             calculateHealthScore(
                 [churnRate |-> Compared(churnRate, 0),
                  busFactor |-> busFactor,
                  ownershipConcentration |-> ownershipConcentration,
                  avgCommitSize |-> Compared(avgCommitSize, 0),
                  codeStability |-> Compared(codeStability, Hundred),
                  commentRatio |-> Compared(commentRatio, Hundred)])]

\* ------------------------------------------------------ quality metric runs
MaxContributors == 3

S_Carol == <<"C", "a", "r", "o", "l">>

\* the third author has no email and is known by name
QualityAuthors ==
    {[author |-> S_Alice, email |-> S_aliceMail],
     [author |-> S_Bob, email |-> S_bobMail],
     [author |-> S_Carol, email |-> <<>>]}

\* additions / deletions of a commit
QualitySizes == {<<0, 0>>, <<10, 5>>, <<30, 0>>}

\* totalCommits of an author summary
UserCounts == {1, 2, 4, 16, 19}

\* an author summary is appended to a list of author summaries
AddUser ==
    /\ quality.op = "none"
    /\ Len(quality.input) < MaxContributors
    /\ IF quality.input = <<>> THEN TRUE ELSE IsUserList(quality.input)
    /\ \E who \in QualityAuthors, n \in UserCounts :
          quality' = [quality EXCEPT
                         !.input = Append(@, [name |-> who.author,
                                              email |-> who.email,
                                              totalCommits |-> n])]
    /\ UNCHANGED <<parserVars, attribution, aggVars,
                   timing, classified, hotspots, risk, scan, focus>>

\* a commit is appended to a list of commits
AddQualityCommit ==
    /\ quality.op = "none"
    /\ Len(quality.input) < MaxContributors
    /\ IF quality.input = <<>> THEN TRUE ELSE ~IsUserList(quality.input)
    /\ \E who \in QualityAuthors, size \in QualitySizes :
          quality' = [quality EXCEPT
                         !.input = Append(@, [author |-> who.author,
                                              email |-> who.email,
                                              additions |-> size[1],
                                              deletions |-> size[2]])]
    /\ UNCHANGED <<parserVars, attribution, aggVars,
                   timing, classified, hotspots, risk, scan, focus>>

ComputeBusFactor ==
    /\ quality.op = "none"
    /\ quality' = [op |-> "busFactor", input |-> quality.input,
                   result |-> calculateBusFactor(quality.input)]
    /\ UNCHANGED <<parserVars, attribution, aggVars,
                   timing, classified, hotspots, risk, scan, focus>>

NextBusFactor == AddUser \/ AddQualityCommit \/ ComputeBusFactor

SpecBusFactor == Init /\ [][NextBusFactor]_vars

ComputeGini ==
    /\ quality.op = "none"
    /\ quality' = [op |-> "gini", input |-> quality.input,
                   result |-> calculateGiniCoefficient(quality.input)]
    /\ UNCHANGED <<parserVars, attribution, aggVars,
                   timing, classified, hotspots, risk, scan, focus>>

NextGini == AddQualityCommit \/ ComputeGini

SpecGini == Init /\ [][NextGini]_vars

\* ------------------------------------------------------- all metrics of a run
\* the line counts of a repository: source and comment lines
StatsInputs ==
    {Null,
     <<[source |-> NotANumber, comment |-> 0]>>,
     <<[source |-> Num(0), comment |-> 0]>>,
     <<[source |-> Num(200), comment |-> 15]>>,
     <<[source |-> Num(3), comment |-> 1]>>}

LocInputs == {Null} \cup {<<[stats |-> s]>> : s \in StatsInputs}

ComputeMetrics ==
    /\ quality.op = "none"
    /\ IF quality.input = <<>> THEN TRUE ELSE ~IsUserList(quality.input)
    /\ \E loc \in LocInputs :
          quality' = [op |-> "metrics", input |-> quality.input, loc |-> loc,
                      result |-> calculateCodeQualityMetrics(quality.input, loc, Null)]
    /\ UNCHANGED <<parserVars, attribution, aggVars,
                   timing, classified, hotspots, risk, scan, focus>>

\* calculateCommentRatio called on line counts
ComputeCommentRatio ==
    /\ quality.op = "none"
    /\ quality.input = <<>>
    /\ \E stats \in StatsInputs :
          quality' = [op |-> "commentRatio", input |-> <<>>, stats |-> stats,
                      result |-> calculateCommentRatio(stats)]
    /\ UNCHANGED <<parserVars, attribution, aggVars,
                   timing, classified, hotspots, risk, scan, focus>>

NextMetrics == AddQualityCommit \/ ComputeMetrics \/ ComputeCommentRatio

SpecMetrics == Init /\ [][NextMetrics]_vars

\* ----------------------------------------------------- commits split evenly
MaxEvenAuthors == 8

\* the commits of each author
EvenCounts == 1..4

\* n contributors with c commits each, as author summaries or as commits
RECURSIVE EvenInput(_, _, _)
EvenInput(shape, c, n) ==
    IF n = 0 THEN <<>>
    ELSE EvenInput(shape, c, n - 1)
         \o (IF shape = "users"
             THEN <<[name |-> ToDecimal(n), email |-> ToDecimal(n),
                     totalCommits |-> c]>>
             ELSE [k \in 1..c |-> [author |-> ToDecimal(n), email |-> ToDecimal(n),
                                   additions |-> 10, deletions |-> 5]])

StartEvenSplit ==
    /\ quality.op = "none"
    /\ quality.input = <<>>
    /\ \E shape \in {"users", "commits"}, c \in EvenCounts :
          quality' = [op |-> "even", input |-> <<>>, shape |-> shape, c |-> c,
                      n |-> 0, busFactor |-> calculateBusFactor(<<>>)]
    /\ UNCHANGED <<parserVars, attribution, aggVars,
                   timing, classified, hotspots, risk, scan, focus>>

\* one more author with c commits, and the bus factor of the new input
AddEvenAuthor ==
    /\ quality.op = "even"
    /\ quality.n < MaxEvenAuthors
    /\ quality' =
           [quality EXCEPT
               !.n = @ + 1,
               !.input = EvenInput(quality.shape, quality.c, quality.n + 1),
               !.busFactor = calculateBusFactor(
                                 EvenInput(quality.shape, quality.c, quality.n + 1))]
    /\ UNCHANGED <<parserVars, attribution, aggVars,
                   timing, classified, hotspots, risk, scan, focus>>

NextEvenSplit == StartEvenSplit \/ AddEvenAuthor

SpecEvenSplit == Init /\ [][NextEvenSplit]_vars

\* ------------------------------------------- calculateHealthScore on its own
\* values on both sides of every threshold
HealthBusFactors == 0..3
HealthOwnership == {-50, 50, 51, 70, 71}
HealthCommitSizes == {200, 201, 500, 501}
HealthCommentRatios == {0, 49, 50, 99, 100}
HealthStabilities == {49, 50, 300, 301}
HealthChurnRates == {500, 501, 1000, 1001}

AssessHealth ==
    /\ quality.op = "none"
    /\ quality.input = <<>>
    /\ \E bf \in HealthBusFactors, oc \in HealthOwnership,
          acs \in HealthCommitSizes, cr \in HealthCommentRatios,
          st \in HealthStabilities, ch \in HealthChurnRates :
          LET metrics == [busFactor |-> bf, ownershipConcentration |-> oc,
                          avgCommitSize |-> acs, commentRatio |-> cr,
                          codeStability |-> st, churnRate |-> ch]
          IN  quality' = [op |-> "health", input |-> <<>>, metrics |-> metrics,
                          healthScore |-> calculateHealthScore(metrics)]
    /\ UNCHANGED <<parserVars, attribution, aggVars,
                   timing, classified, hotspots, risk, scan, focus>>

NextHealth == AssessHealth

SpecHealth == Init /\ [][NextHealth]_vars

\* ---------------------------------------------- the analysis of a project
\* the statistics of one active repository, as run computes them: the two
\* aggregations, then the quality metrics from the commits, the line counts
\* and the author summaries
AnalyzeProject ==
    /\ report.op = "none"
    /\ \E stats \in {<<[source |-> Num(0), comment |-> 0]>>,
                     <<[source |-> Num(200), comment |-> 15]>>} :
          LET userStats == generateUserStats(aggInput)
          IN  report' = [op |-> "analyzed",
                         users |-> userStats,
                         project |-> generateProjectStats(aggInput),
                         quality |-> calculateCodeQualityMetrics(
                                         aggInput, <<[stats |-> stats]>>,
                                         <<userStats>>)]
    /\ UNCHANGED <<parserVars, attribution, aggInput, analysisVars>>

NextAnalyze == AddCommit \/ AnalyzeProject

SpecAnalyze == Init /\ [][NextAnalyze]_vars

\* ------------------------------------------------- multi-repository scan
MaxRepos == 2

\* the paths findGitRepositories returns, each once
RepoPaths == <<"/w/a", "/w/b", "/w/c", "/w/d">>

\* what `git log` prints in a repository
GitOutputs == {<<>>, <<SP, NL>>, <<"c", "1", BAR>>}

\* the step of the analysis of a repository that throws, if any
FailSteps == {"none", "log", "parse", "stats"}

\* the entry is pushed as soon as the log is not empty, whatever follows
analyzeRepository_PushesFirst(repo, projects) ==
    IF repo.failsAt = "log" THEN projects
    ELSE IF Len(Trim(repo.output)) > 0
         THEN Append(projects, [path |-> repo.path, stats |-> repo.stats])
         ELSE projects

\* the body of the loop of run: try { ... projects.push(...) } catch { }
analyzeRepository(repo, projects) ==
    IF repo.failsAt = "log" THEN projects
    ELSE IF Len(Trim(repo.output)) > 0
         THEN IF repo.failsAt # "none" THEN projects
              ELSE Append(projects, [path |-> repo.path, stats |-> repo.stats])
         ELSE projects

\* the comparator of projects.sort for sortBy = 'commits'
CompareProjects(a, b, sortOrder) ==
    IF sortOrder = "asc" THEN a.stats.totalCommits - b.stats.totalCommits
    ELSE b.stats.totalCommits - a.stats.totalCommits

RECURSIVE InsertProject(_, _, _)
InsertProject(p, sorted, sortOrder) ==
    IF sorted = <<>> THEN <<p>>
    ELSE IF CompareProjects(Head(sorted), p, sortOrder) <= 0
         THEN <<Head(sorted)>> \o InsertProject(p, Tail(sorted), sortOrder)
         ELSE <<p>> \o sorted

RECURSIVE SortProjects(_, _, _)
SortProjects(todo, sorted, sortOrder) ==
    IF todo = <<>> THEN sorted
    ELSE SortProjects(Tail(todo), InsertProject(Head(todo), sorted, sortOrder),
                      sortOrder)

\* findGitRepositories has found one more repository
FindRepository ==
    /\ scan.phase = "found"
    /\ Len(scan.repos) < MaxRepos
    /\ \E output \in GitOutputs, failsAt \in FailSteps, n \in {1, 2} :
          scan' = [scan EXCEPT
                      !.repos = Append(@, [path |-> RepoPaths[Len(@) + 1],
                                           output |-> output,
                                           failsAt |-> failsAt,
                                           stats |-> [totalCommits |-> n]])]
    /\ UNCHANGED <<parserVars, attribution, aggVars,
                   timing, classified, hotspots, risk, quality, focus>>

\* one turn of the loop over allRepoPaths
AnalyzeRepository ==
    /\ scan.phase \in {"found", "scanning"}
    /\ scan.next <= Len(scan.repos)
    /\ scan' = [scan EXCEPT
                   !.phase = "scanning",
                   !.next = @ + 1,
                   !.projects = analyzeRepository(scan.repos[scan.next], @)]
    /\ UNCHANGED <<parserVars, attribution, aggVars,
                   timing, classified, hotspots, risk, quality, focus>>

\* the loop is over: the projects are sorted (nothing to sort when empty)
SortAndReport ==
    /\ scan.phase \in {"found", "scanning"}
    /\ scan.next > Len(scan.repos)
    /\ \E sortOrder \in {"asc", "desc"} :
          scan' = [scan EXCEPT
                      !.phase = "done",
                      !.projects = SortProjects(@, <<>>, sortOrder)]
    /\ UNCHANGED <<parserVars, attribution, aggVars,
                   timing, classified, hotspots, risk, quality, focus>>

NextScan == FindRepository \/ AnalyzeRepository \/ SortAndReport

SpecScan == Init /\ [][NextScan]_vars

\* ------------------------------------------------------------ focus time
\* (x / y * 100).toFixed(1) for x >= 0 and y > 0, in tenths of a percent:
\* the nearest tenth, halves rounded up
PercentToFixed1(x, y) == (2 * Thousand * x + y) \div (2 * y)

\* the branch of the forEach callback a commit takes
FocusClass(c) ==
    IF c.date = Null THEN "undated"
    ELSE IF c.date[1].day = 0 \/ c.date[1].day = 6 THEN "weekend"
    ELSE IF c.date[1].hour >= 9 /\ c.date[1].hour < 18 THEN "workingHours"
    ELSE "afterHours"

\* the commits are given as runs: `count` commits that share one date, a
\* date being Null (no date) or <<[day, hour]>> (getDay, getHours)
RECURSIVE CountRuns(_, _)
CountRuns(runs, classes) ==
    IF runs = <<>> THEN 0
    ELSE (IF FocusClass(Head(runs)) \in classes THEN Head(runs).count ELSE 0)
         + CountRuns(Tail(runs), classes)

AllClasses == {"undated", "weekend", "workingHours", "afterHours"}

\* the percentages are held in tenths
calculateFocusTime(runs) ==
    LET length == CountRuns(runs, AllClasses)
        workingHoursCommits == CountRuns(runs, {"workingHours"})
        afterHoursCommits == CountRuns(runs, {"afterHours"})
        weekendCommits == CountRuns(runs, {"weekend"})
    IN  IF length = 0
        THEN [workingHoursCommits |-> 0, afterHoursCommits |-> 0,
              weekendCommits |-> 0, workLifeBalance |-> "Unknown"]
        ELSE LET afterHoursPercent == PercentToFixed1(afterHoursCommits, length)
                 weekendPercent == PercentToFixed1(weekendCommits, length)
             IN  [workingHoursCommits |-> workingHoursCommits,
                  workingHoursPercent |->
                      PercentToFixed1(workingHoursCommits, length),
                  afterHoursCommits |-> afterHoursCommits,
                  afterHoursPercent |-> afterHoursPercent,
                  weekendCommits |-> weekendCommits,
                  weekendPercent |-> weekendPercent,
                  workLifeBalance |->
                      IF afterHoursPercent > 400 \/ weekendPercent > 300
                      THEN "Poor"
                      ELSE IF afterHoursPercent > 250 \/ weekendPercent > 150
                           THEN "Fair"
                           ELSE "Good"]

MaxRuns == 2

FocusDates ==
    {Null} \cup {<<[day |-> d, hour |-> h]>> : d \in {0, 3, 6}, h \in {8, 9, 17, 18}}

RunCounts == {1, 17, 96}

AddFocusCommits ==
    /\ focus.op = "none"
    /\ Len(focus.commits) < MaxRuns
    /\ \E date \in FocusDates, n \in RunCounts :
          focus' = [focus EXCEPT
                       !.commits = Append(@, [date |-> date, count |-> n])]
    /\ UNCHANGED <<parserVars, attribution, aggVars,
                   timing, classified, hotspots, risk, quality, scan>>

ComputeFocusTime ==
    /\ focus.op = "none"
    /\ focus' = [op |-> "done", commits |-> focus.commits,
                 result |-> calculateFocusTime(focus.commits)]
    /\ UNCHANGED <<parserVars, attribution, aggVars,
                   timing, classified, hotspots, risk, quality, scan>>

NextFocus == AddFocusCommits \/ ComputeFocusTime

SpecFocus == Init /\ [][NextFocus]_vars

\* --------------------------------------------------- quality properties
\* the authors of a bus factor given: the summaries themselves, or the
\* authors the commits are counted under
BusAuthors(given) ==
    IF given = <<>> THEN {}
    ELSE IF IsUserList(given) THEN 1..Len(given)
    ELSE {AuthorKey(given[i]) : i \in 1..Len(given)}

BusCountOf(given, a) ==
    IF IsUserList(given) THEN given[a].totalCommits
    ELSE Cardinality({i \in 1..Len(given) : AuthorKey(given[i]) = a})

RECURSIVE BusCountSum(_, _)
BusCountSum(given, S) ==
    IF S = {} THEN 0
    ELSE LET a == CHOOSE x \in S : TRUE
         IN  BusCountOf(given, a) + BusCountSum(given, S \ {a})

\* the authors in S hold 80% of the commits or more
HoldsFourFifths(given, S) ==
    5 * BusCountSum(given, S) >= 4 * BusCountSum(given, BusAuthors(given))

\* C16: the bus factor is the smallest k such that the k largest per-author
\* commit counts reach 80% of all commits, 0 for no given; it is 1 when one
\* author holds 80% or more, and between 1 and the number of authors
C16_BusFactor ==
    quality.op = "busFactor"
    => LET given == quality.input
           k == quality.result
           authors == BusAuthors(given)
       IN  IF given = <<>> THEN k = 0
           ELSE /\ k \in 1..Cardinality(authors)
                /\ \E S \in SUBSET authors :
                      Cardinality(S) = k /\ HoldsFourFifths(given, S)
                /\ \A S \in SUBSET authors :
                      HoldsFourFifths(given, S) => Cardinality(S) >= k
                /\ (\E a \in authors : HoldsFourFifths(given, {a})) => k = 1

\* one author with 1 commit listed before one with 19 (95%): bus factor 1
C16_Witness ==
    /\ quality.op = "busFactor"
    /\ Len(quality.input) = 2
    /\ IsUserList(quality.input)
    /\ quality.input[1].totalCommits = 1
    /\ quality.input[2].totalCommits = 19
    /\ quality.result = 1

\* C17: with the commits split evenly among n >= 1 authors, one more author
\* with the same number of commits never lowers the bus factor
C17_EvenSplitMonotone ==
    [][(quality.op = "even" /\ quality'.op = "even" /\ quality.n >= 1)
       => quality'.busFactor >= quality.busFactor]_vars

\* a fifth author of 3 commits has joined four: 4 authors hold 12 of 15
C17_Witness ==
    /\ quality.op = "even"
    /\ quality.shape = "commits"
    /\ quality.c = 3
    /\ quality.n = 5
    /\ Len(quality.input) = 15
    /\ quality.busFactor = 4

\* the additions of each author of the commits
GiniKeys(cs) == {AuthorKey(cs[i]) : i \in 1..Len(cs)}

GiniAllZero(cs) == \A i \in 1..Len(cs) : cs[i].additions = 0

\* C18: the Gini coefficient of the additions per author is between 0 and
\* 1 (0 and 100 hundredths); it is 0 for a single contributor and for an
\* empty or all-zero contribution vector
C18_GiniBounds ==
    quality.op = "gini"
    => /\ quality.result >= 0
       /\ quality.result <= Hundred
       /\ Cardinality(GiniKeys(quality.input)) = 1 => quality.result = 0
       /\ GiniAllZero(quality.input) => quality.result = 0

\* the deduction of each rule, from its own metric
HealthDeductions(m) ==
    <<IF m.busFactor = 1 THEN 20 ELSE IF m.busFactor = 2 THEN 10 ELSE 0,
      IF m.ownershipConcentration > 70 THEN 15
      ELSE IF m.ownershipConcentration > 50 THEN 8 ELSE 0,
      IF m.avgCommitSize > 500 THEN 10
      ELSE IF m.avgCommitSize > 200 THEN 5 ELSE 0,
      IF m.commentRatio < 50 THEN 10 ELSE IF m.commentRatio < 100 THEN 5 ELSE 0,
      IF m.codeStability > 300 \/ m.codeStability < 50 THEN 10 ELSE 0,
      IF m.churnRate > 1000 THEN 10 ELSE IF m.churnRate > 500 THEN 5 ELSE 0>>

\* C19: the health score is 100 minus the sum of the six deductions, each
\* decided by its own metric alone
C19_HealthDeductions ==
    quality.op = "health"
    => quality.healthScore = 100 - SumNums(HealthDeductions(quality.metrics))

\* the bus factor rule and the churn rule fire together, the others do not
C19_Witness ==
    /\ quality.op = "health"
    /\ HealthDeductions(quality.metrics) = <<20, 0, 0, 0, 0, 10>>
    /\ quality.healthScore = 70

\* C20: the health score is an integer from 0 to 100, and it is 0 when the
\* deductions exceed 100 points
C20_HealthClamp ==
    quality.op = "health"
    => /\ quality.healthScore \in 0..100
       /\ SumNums(HealthDeductions(quality.metrics)) > 100
          => quality.healthScore = 0

\* every rule fires with its highest deduction: 75 points, score 25
C20_Witness ==
    /\ quality.op = "health"
    /\ HealthDeductions(quality.metrics) = <<20, 15, 10, 10, 10, 10>>
    /\ quality.healthScore = 25

\* C21: the code stability is 2 when nothing was deleted and something was
\* added, and 1 when nothing was added either or there are no commits; the
\* Gini coefficient is 0 when the contributions sum to 0; the comment ratio
\* is 0 when the source lines are 0 or missing; the churn rate and the
\* average commit size are 0 for no commits; no result is NaN or infinite
C21_ZeroDenominatorGuards ==
    /\ quality.op = "metrics"
       => LET cs == quality.input
              r == quality.result
          IN  /\ r.codeStability # NotANumber
              /\ r.churnRate # NotANumber
              /\ r.avgCommitSize # NotANumber
              /\ r.commentRatio # NotANumber
              /\ (Reduce(cs, "deletions") = 0 /\ Reduce(cs, "additions") > 0)
                 => r.codeStability = Num(2 * Hundred)
              /\ (Reduce(cs, "deletions") = 0 /\ Reduce(cs, "additions") = 0)
                 => r.codeStability = Num(Hundred)
              /\ GiniAllZero(cs) => r.ownershipConcentration = 0
              /\ cs = <<>> => r.churnRate = Num(0) /\ r.avgCommitSize = Num(0)
              /\ (quality.loc = Null \/ quality.loc[1].stats = Null)
                 => r.commentRatio = Num(0)
              /\ (quality.loc # Null /\ quality.loc[1].stats # Null
                  /\ quality.loc[1].stats[1].source \in {NotANumber, Num(0)})
                 => r.commentRatio = Num(0)
    /\ quality.op = "commentRatio"
       => /\ quality.result # NotANumber
          /\ quality.stats = Null => quality.result = Num(0)
          /\ (quality.stats # Null
              /\ quality.stats[1].source \in {NotANumber, Num(0)})
             => quality.result = Num(0)

\* two commits that add 30 lines each and delete none, in a repository
\* with no source lines: stability 2, comment ratio 0
C21_Witness ==
    /\ quality.op = "metrics"
    /\ Len(quality.input) = 2
    /\ Reduce(quality.input, "additions") = 60
    /\ Reduce(quality.input, "deletions") = 0
    /\ quality.loc = <<[stats |-> <<[source |-> Num(0), comment |-> 0]>>]>>
    /\ quality.result.codeStability = Num(2 * Hundred)
    /\ quality.result.commentRatio = Num(0)

\* the repositories among the first k whose log is not empty and whose
\* analysis does not fail
ActiveRepos(k) ==
    {i \in 1..k : /\ scan.repos[i].failsAt = "none"
                  /\ Len(Trim(scan.repos[i].output)) > 0}

\* C22: a repository whose analysis fails at any step, or whose log output
\* is empty, contributes no project entry, and the scan goes on with the
\* remaining repositories: after k repositories the projects are exactly the
\* active ones among them, each once, and the scan ends after the last one
C22_ScanSkipsFailures ==
    LET k == scan.next - 1
    IN  /\ k \in 0..Len(scan.repos)
        /\ scan.phase = "done" => k = Len(scan.repos)
        /\ Len(scan.projects) = Cardinality(ActiveRepos(k))
        /\ {scan.projects[j].path : j \in 1..Len(scan.projects)}
           = {scan.repos[i].path : i \in ActiveRepos(k)}

\* the first repository fails while parsing, the second is analysed
C22_Witness ==
    /\ scan.phase = "done"
    /\ Len(scan.repos) = 2
    /\ scan.repos[1].failsAt = "parse"
    /\ Len(Trim(scan.repos[1].output)) > 0
    /\ scan.repos[2].failsAt = "none"
    /\ Len(scan.projects) = 1
    /\ scan.projects[1].path = scan.repos[2].path

\* the commits dated on one of `days` at one of `hours`
RECURSIVE CommitsWhere(_, _, _)
CommitsWhere(runs, days, hours) ==
    IF runs = <<>> THEN 0
    ELSE (IF /\ Head(runs).date # Null
             /\ Head(runs).date[1].day \in days
             /\ Head(runs).date[1].hour \in hours
          THEN Head(runs).count ELSE 0)
         + CommitsWhere(Tail(runs), days, hours)

DatedCommits(runs) == CommitsWhere(runs, 0..6, 0..23)

\* the three classes counted from the dates, and the balance from the
\* shares of all the commits given
FocusClassesRight(runs, r) ==
    /\ r.weekendCommits = CommitsWhere(runs, {0, 6}, 0..23)
    /\ r.workingHoursCommits = CommitsWhere(runs, 1..5, 9..17)
    /\ r.afterHoursCommits = CommitsWhere(runs, 1..5, (0..8) \cup (18..23))
    /\ r.weekendCommits + r.workingHoursCommits + r.afterHoursCommits
       = DatedCommits(runs)

FocusBalance(runs, r) ==
    LET length == CountRuns(runs, AllClasses)
    IN  IF 100 * r.afterHoursCommits > 40 * length
           \/ 100 * r.weekendCommits > 30 * length THEN "Poor"
        ELSE IF 100 * r.afterHoursCommits > 25 * length
                \/ 100 * r.weekendCommits > 15 * length THEN "Fair"
        ELSE "Good"

\* C23: every dated commit is counted in exactly one of weekend (Saturday
\* or Sunday), working hours (Monday to Friday, 9 <= hour < 18) and after
\* hours, so the three counts sum to the number of dated commits; the
\* balance is Poor if the after-hours share is above 40% or the weekend
\* share above 30%, otherwise Fair if they are above 25% or 15%, otherwise
\* Good
C23_FocusTime ==
    (focus.op = "done" /\ focus.commits # <<>>)
    => /\ FocusClassesRight(focus.commits, focus.result)
       /\ focus.result.workLifeBalance = FocusBalance(focus.commits, focus.result)

\* 17 weekend commits out of 113 are 15.04% of them, rendered "15.0"
C23_RoundedShare ==
    /\ focus.op = "done"
    /\ CountRuns(focus.commits, AllClasses) = 113
    /\ focus.result.weekendCommits = 17
    /\ focus.result.afterHoursCommits = 0
    /\ focus.result.weekendPercent = 150
    /\ focus.result.workLifeBalance = "Good"

\* the %D decoration of a header line ("" when the line has none)
DecorationOf(line) ==
    LET parts == Split(line, BAR)
    IN  IF Len(parts) >= 6 THEN parts[6] ELSE <<>>

\* C24: in the script, the containment query is made for a header line
\* only if the fast path on its decoration left the label `unknown` and the
\* hash is not empty, once, while that line is scanned; a commit whose
\* decoration resolves a label carries that label and makes no query
C24_QueryOnlyAfterFastPath ==
    variant = "script"
    => LET headers == SelectSeq(input, IsHeaderLine)
       IN  /\ Len(queries) = Len(headers)
           /\ Len(ParsedSoFar) = Len(headers)
           /\ \A j \in 1..Len(headers) :
                 LET fast == FastPathBranch(DecorationOf(headers[j]))
                     hash == Split(headers[j], BAR)[1]
                 IN  /\ queries[j].asked <=> (fast = S_unknown /\ hash # <<>>)
                     /\ fast # S_unknown
                        => ~queries[j].asked /\ ParsedSoFar[j].branch = fast
                     /\ hash = <<>> => ParsedSoFar[j].branch = fast

\* a header decorated `HEAD -> dev` is labelled dev without a query, and the
\* undecorated header after it makes its query
C24_Witness ==
    /\ variant = "script"
    /\ Len(input) = 2
    /\ input[1] = DecoratedHeaderLine(S_hashA, S_HEADArrowSp \o S_dev)
    /\ input[2] = HeaderLine(S_hashA, S_message)
    /\ ~queries[1].asked
    /\ queries[2].asked
    /\ ParsedSoFar[1].branch = S_dev

\* the texts of the entries of one kind, as the query prints them
TextsOfKind(entries, kind) ==
    {entries[i].text : i \in {j \in 1..Len(entries) : entries[j].kind = kind}}

\* C25: in the library pipeline, when the containment query lists several
\* branches the label is main if main is listed, else master if master is
\* listed, else another local branch, else a remote branch, whatever the
\* order of the listing (the marker of a detached HEAD is counted with the
\* local branches, as the code counts it)
C25_LibPriority ==
    (attribution.op = "lib" /\ attribution.contains.ok
     /\ Len(attribution.listed) > 1)
    => LET locals == TextsOfKind(attribution.listed, "local")
                     \cup TextsOfKind(attribution.listed, "detached")
           remotes == TextsOfKind(attribution.listed, "remote")
                      \cup TextsOfKind(attribution.listed, "pointer")
       IN  IF S_main \in locals THEN attribution.label = S_main
           ELSE IF S_master \in locals THEN attribution.label = S_master
           ELSE IF locals # {} THEN attribution.label \in locals
           ELSE attribution.label \in remotes

\* the query lists dev before main, and the label is dev
C25_FirstLocalWins ==
    /\ attribution.op = "lib"
    /\ Texts(attribution.listed) = <<S_dev, S_main>>
    /\ attribution.label = S_dev

\* how many times the commit c occurs in the sequence cs
Occurrences(cs, c) == Cardinality({i \in 1..Len(cs) : cs[i] = c})

RECURSIVE SumField(_, _)
SumField(summaries, field) ==
    IF summaries = <<>> THEN 0
    ELSE Head(summaries)[field] + SumField(Tail(summaries), field)

\* C26: every commit of the input is in the commits list of exactly one
\* author summary (as often as it occurs in the input), and the
\* totalCommits, totalAdditions and totalDeletions of the summaries add up
\* to those of the project summary
C26_Conservation ==
    report.op = "done"
    => /\ \A i \in 1..Len(aggInput) :
             \E k \in 1..Len(report.users) :
                /\ Occurrences(report.users[k].commits, aggInput[i])
                   = Occurrences(aggInput, aggInput[i])
                /\ \A j \in 1..Len(report.users) :
                      j # k => Occurrences(report.users[j].commits, aggInput[i]) = 0
       /\ \A k \in 1..Len(report.users) :
             \A j \in 1..Len(report.users[k].commits) :
                Occurrences(aggInput, report.users[k].commits[j]) > 0
       /\ SumField(report.users, "totalCommits") = report.project.totalCommits
       /\ SumField(report.users, "totalAdditions") = report.project.totalAdditions
       /\ SumField(report.users, "totalDeletions") = report.project.totalDeletions

\* three commits of two authors: summaries of 2 and 1 commits, 3 in all
C26_Witness ==
    /\ report.op = "done"
    /\ Len(aggInput) = 3
    /\ Len(report.users) = 2
    /\ Len(report.users[1].commits) = 2
    /\ Len(report.users[2].commits) = 1
    /\ report.project.totalCommits = 3
    /\ report.users[1].totalAdditions + report.users[2].totalAdditions
       = report.project.totalAdditions

\* C29: the bus factor computed from the author summaries of
\* generateUserStats, as calculateCodeQualityMetrics computes it, is the
\* bus factor computed from the commits themselves
C29_BusFactorSameOnBothShapes ==
    report.op = "analyzed"
    => report.quality.busFactor = calculateBusFactor(aggInput)

\* two commits under one email and two spellings of the author's name:
\* two summaries (bus factor 2), one author of the commits (bus factor 1)
C29_TwoSpellings ==
    /\ report.op = "analyzed"
    /\ Len(aggInput) = 2
    /\ aggInput[1].email = aggInput[2].email
    /\ aggInput[1].author # aggInput[2].author
    /\ report.quality.busFactor = 2
    /\ calculateBusFactor(aggInput) = 1

\* C27: a file touched by exactly 2 or exactly 3 authors is never High,
\* whatever its changes and churn; High takes 1 author or more than 3
C27_NoHighForTwoOrThree ==
    risk.op = "done"
    => /\ risk.authorCount \in {2, 3} => risk.riskLevel.level # "High"
       /\ risk.riskLevel.level = "High"
          => (risk.authorCount = 1 \/ risk.authorCount > 3)

\* the highest tiers of changes and churn with 2 authors: 60 points, Medium
C27_Witness ==
    /\ risk.op = "done"
    /\ risk.changes > 20
    /\ risk.churn > 1000
    /\ risk.authorCount = 2
    /\ risk.riskLevel.level = "Medium"

\* C28: the health score is at least 25 for every metrics record: the
\* deductions sum to 75 at most, so the score before the clamps is the
\* score returned, and it is never 0
C28_HealthFloor ==
    quality.op = "health"
    => /\ quality.healthScore >= 25
       /\ quality.healthScore # 0
       /\ SumNums(HealthDeductions(quality.metrics)) <= 75
       /\ \A k \in 1..6 :
             HealthDeductions(quality.metrics)[k]
                <= <<20, 15, 10, 10, 10, 10>>[k]

\* a single author, concentrated ownership, large commits, no comments,
\* unstable code and high churn: the floor of 25
C28_Witness ==
    /\ quality.op = "health"
    /\ quality.metrics.busFactor = 1
    /\ quality.metrics.ownershipConcentration = 71
    /\ quality.metrics.avgCommitSize = 501
    /\ quality.metrics.commentRatio = 0
    /\ quality.metrics.codeStability = 49
    /\ quality.metrics.churnRate = 1001
    /\ quality.healthScore = 25

\* C30: a label of the fast path other than unknown is the full name of a
\* branch listed in the decoration (the branch HEAD points to included):
\* not a part of a longer name, not the word tag, not the name of a tag
C30_LabelIsListedBranch ==
    (attribution.op = "fast" /\ attribution.label # S_unknown)
    => attribution.label \in Elems(NamesOfKind(attribution.listed, "head"))
                             \cup Elems(NamesOfKind(attribution.listed, "branch"))

\* the only ref is the branch feature/maintenance, and the label is main
C30_Fragment ==
    /\ attribution.op = "fast"
    /\ attribution.refNames = S_maintenance
    /\ attribution.label = S_main

====
